---------------------------- MODULE Spec2Model ----------------------------
(***************************************************************************)
(* A model of the RobinHood library's iterator combinators (array,         *)
(* chunkify, tee: src/src/uri.c) and of the MongoDB backend's bulk update  *)
(* (src/src/backends/mongo/mongo.c).                                       *)
(*                                                                         *)
(* Pointers to elements are modelled as positive integers, NULL as 0.      *)
(* errno values are modelled as strings, "0" being "no error".             *)
(***************************************************************************)
EXTENDS Integers, Sequences, FiniteSets, TLC

(***************************************************************************)
(* Bounds of the model                                                     *)
(***************************************************************************)
MaxLen == 5          \* longest source array
MaxSubErrs == 1      \* failures the underlying iterator may report
MaxPushFails == 2    \* failures of rbh_queue_push() the allocator may inject

NULL == 0
Elems == 1..MaxLen        \* the addresses of the elements of the source array

ENODATA == "ENODATA"
EIO == "EIO"              \* any failure of an underlying iterator
ENOMEM == "ENOMEM"
EINVAL == "EINVAL"
NoErr == "0"
CallerErrnos == {NoErr, "EEXIST"}   \* errno as the caller's earlier calls left it

\* The array of n elements: its elements are told apart by their address
Iota(n) == [k \in 1..n |-> k]

RECURSIVE Flatten(_)
Flatten(ss) == IF ss = <<>> THEN <<>> ELSE Head(ss) \o Flatten(Tail(ss))

IsPrefix(s, t) == Len(s) <= Len(t) /\ SubSeq(t, 1, Len(s)) = s

VARIABLES
    sub,        \* the underlying iterator: [array, index, errs, destroyed]
    errno,      \* the thread's errno after the last call
    errnoIn,    \* errno as it was when the last call was entered
    ret,        \* what the last call returned (an element or NULL)
    last,       \* which call was the last one
    failure,    \* the failure the last call met: NoErr when it met none, the
                \* error of the underlying iterator (or EIO for a cursor that
                \* failed), ENOMEM when an allocation failed
    tee,        \* tee[i]: the i-th struct tee_iterator
    teeH,       \* what each tee sibling has observed, and the faults injected
    ck,         \* the struct chunkify_iterator
    chunks,     \* every struct chunk_iterator returned so far
    ckH,        \* the faults injected into chunkify
    store,        \* the collection `entries' of the MongoDB backend
    storeBefore,  \* the collection before the last update
    lastBatch,    \* the fsevents the last update read, or the stream as far
                  \* as the fsevent it stopped on
    bulkRun,      \* the last update's bulk: operations issued, executions,
                  \* and whether the pair of every link was kept together
    repeat,       \* the last update resubmitted the batch of the one before
    rbh_backend_error,  \* the last-error buffer
    cursor,       \* the mongoc cursor behind the result iterator
    query,        \* the last query: its filter, its masks, the fsentry returned
    string,       \* the string given to rbh_parse_raw_uri(), or the option
                  \* given to the parser of rbh-find-lustre
    given,        \* the components, or the predicate, the string was
                  \* written from, if any
    uri           \* the struct rbh_raw_uri the parser filled in

iterVars == <<sub, errno, errnoIn, ret, last, failure>>
teeVars == <<tee, teeH>>
ckVars == <<ck, chunks, ckH>>
mongoVars == <<store, storeBefore, lastBatch, bulkRun, repeat, rbh_backend_error>>
queryVars == <<cursor, query>>
uriVars == <<string, given, uri>>

(***************************************************************************)
(* The underlying iterator: rbh_iter_array(), which may be replaced by any *)
(* iterator that can fail (errs > 0) with an error that is not ENODATA.    *)
(***************************************************************************)
SubInit ==
    /\ sub \in [array : {Iota(n) : n \in 0..MaxLen}, index : {0},
                errs : 0..MaxSubErrs, destroyed : {0}]
    /\ errno \in CallerErrnos
    /\ errnoIn = errno
    /\ ret = NULL
    /\ last = <<"init", 0>>
    /\ failure = NoErr

\* An array_iter_next() that returns the element and leaves the index alone
array_iter_next_peek(s) ==
    IF s.index < Len(s.array)
    THEN {[elem |-> s.array[s.index + 1], err |-> "keep", sub |-> s]}
    ELSE {[elem |-> NULL, err |-> ENODATA, sub |-> s]}

\* The outcomes of rbh_iter_next(subiter): the element returned, the errno it
\* sets ("keep" when it leaves errno alone) and the iterator afterwards.
array_iter_next(s) ==
    IF s.index < Len(s.array)
    THEN {[elem |-> s.array[s.index + 1], err |-> "keep",
           sub |-> [s EXCEPT !.index = @ + 1]]}
    ELSE {[elem |-> NULL, err |-> ENODATA, sub |-> s]}

rbh_iter_next(s) ==
    array_iter_next(s)
    \cup (IF s.errs > 0
          THEN {[elem |-> NULL, err |-> EIO, sub |-> [s EXCEPT !.errs = @ - 1]]}
          ELSE {})

\* errno is left as the call to the underlying iterator left it
ErrnoAfterNoRestore(e, o) == IF o.err = "keep" THEN NoErr ELSE o.err

\* errno after a call that entered with errno = e and met outcome o
ErrnoAfter(e, o) == IF o.err = "keep" THEN e ELSE o.err

\* rbh_iter_next() by the owner of an array iterator that he has given to
\* no combinator
ArrayNext ==
    /\ last[1] \in {"init", "array_next"}
    /\ sub.destroyed = 0
    /\ \E o \in array_iter_next(sub) :
          /\ sub' = o.sub
          /\ ret' = o.elem
          /\ errno' = ErrnoAfter(errno, o)
    /\ errnoIn' = errno
    /\ last' = <<"array_next", 0>>
    /\ failure' = NoErr
    /\ UNCHANGED <<tee, teeH, ck, chunks, ckH>>
    /\ UNCHANGED mongoVars
    /\ UNCHANGED queryVars
    /\ UNCHANGED uriVars

(***************************************************************************)
(* rbh_iter_tee()                                                          *)
(***************************************************************************)
Sibling == {0, 1}
Other(i) == 1 - i

\* tee_iter_new() for both siblings, then the two are linked with each other
rbh_iter_tee ==
    [i \in Sibling |-> [clone |-> TRUE, queue |-> <<>>, next |-> NULL,
                        alive |-> TRUE]]

\* What is recorded of the last tee_iter_next(): whether the sibling's own
\* queue held something, the pending elements and the position of the
\* underlying iterator when the call was entered, whether it retried a failed
\* share (and how that went) and whether its share of a new element failed
NoCall == [popped |-> FALSE, pend |-> [i \in Sibling |-> NULL], index |-> 0,
           retry |-> "none", shareFailed |-> FALSE]

TeeInit ==
    /\ tee = rbh_iter_tee
    /\ teeH = [seen |-> [i \in Sibling |-> <<>>], pushFails |-> 0,
               eof |-> [i \in Sibling |-> FALSE], call |-> NoCall]

TeeIdle ==
    /\ tee = [i \in Sibling |-> [clone |-> FALSE, queue |-> <<>>,
                                 next |-> NULL, alive |-> FALSE]]
    /\ teeH = [seen |-> [i \in Sibling |-> <<>>], pushFails |-> 0,
               eof |-> [i \in Sibling |-> FALSE], call |-> NoCall]

\* rbh_queue_push() succeeds unless the allocator fails
PushResults == IF teeH.pushFails < MaxPushFails THEN {TRUE, FALSE} ELSE {TRUE}

\* A tee_iter_share() whose queue keeps the last element pushed only
tee_iter_share_last(t, element, ok) ==
    IF ok THEN [t EXCEPT !.queue = <<element>>] ELSE t

\* A tee_iter_share() that pushes at the front of the queue
tee_iter_share_front(t, element, ok) ==
    IF ok THEN [t EXCEPT !.queue = <<element>> \o @] ELSE t

\* tee_iter_share(): push `element' at the back of t's queue; ok is whether
\* rbh_queue_push() succeeded (the function then returns 0, otherwise -1)
tee_iter_share(t, element, ok) ==
    IF ok THEN [t EXCEPT !.queue = Append(@, element)] ELSE t

\* A _tee_iter_next() that reads the underlying iterator whatever is pending
_tee_iter_next_sub(t, s) ==
    {[elem |-> o.elem, err |-> o.err, sub |-> o.sub, me |-> t] :
        o \in rbh_iter_next(s)}

\* _tee_iter_next(): the pending element if there is one, otherwise the next
\* element of the underlying iterator
_tee_iter_next(t, s) ==
    IF t.next # NULL
    THEN {[elem |-> t.next, err |-> "keep", sub |-> s,
           me |-> [t EXCEPT !.next = NULL]]}
    ELSE {[elem |-> o.elem, err |-> o.err, sub |-> o.sub, me |-> t] :
            o \in rbh_iter_next(s)}

\* A second half of tee_iter_next() that forgets the element whose share
\* failed
TeeReadForget(T, s, i, e0, retry) ==
    UNION {
      IF q.elem = NULL /\ q.err # "keep"
      THEN {[tee |-> [T EXCEPT ![i] = q.me], sub |-> q.sub, ret |-> NULL,
             errno |-> q.err, failed |-> FALSE, retry |-> retry]}
      ELSE IF T[i].clone
      THEN {[tee |-> [T EXCEPT ![i] = q.me,
                               ![Other(i)] =
                                   IF ok THEN tee_iter_share(@, q.elem, TRUE)
                                   ELSE @],
             sub |-> q.sub, ret |-> q.elem, errno |-> e0,
             failed |-> ~ok, retry |-> retry] : ok \in PushResults}
      ELSE {[tee |-> [T EXCEPT ![i] = q.me], sub |-> q.sub, ret |-> q.elem,
             errno |-> e0, failed |-> FALSE, retry |-> retry]}
      : q \in _tee_iter_next(T[i], s)}

\* The second half of tee_iter_next(), from `errno = 0' on; T is the pair of
\* siblings after the retry of a failed share, if there was one (retry tells).
TeeRead(T, s, i, e0, retry) ==
    UNION {
      IF q.elem = NULL /\ q.err # "keep"
      THEN {[tee |-> [T EXCEPT ![i] = q.me], sub |-> q.sub, ret |-> NULL,
             errno |-> q.err, failed |-> FALSE, retry |-> retry]}
      ELSE IF T[i].clone
      THEN {[tee |-> [T EXCEPT ![i] = q.me,
                               ![Other(i)] =
                                   IF ok THEN tee_iter_share(@, q.elem, TRUE)
                                   ELSE [@ EXCEPT !.next = q.elem]],
             sub |-> q.sub, ret |-> q.elem, errno |-> e0,
             failed |-> ~ok, retry |-> retry] : ok \in PushResults}
      ELSE {[tee |-> [T EXCEPT ![i] = q.me], sub |-> q.sub, ret |-> q.elem,
             errno |-> e0, failed |-> FALSE, retry |-> retry]}
      : q \in _tee_iter_next(T[i], s)}

\* A tee_iter_next() that goes on reading when the retry of the share fails
TeeNextOverwrite(T, s, i, e0) ==
    IF T[i].queue # <<>>
    THEN {[tee |-> [T EXCEPT ![i].queue = Tail(@)], sub |-> s,
           ret |-> Head(T[i].queue), errno |-> e0, failed |-> FALSE,
           retry |-> "none"]}
    ELSE IF T[i].clone /\ T[Other(i)].next # NULL
    THEN UNION {
           IF ok
           THEN TeeRead([T EXCEPT ![Other(i)] =
                            [tee_iter_share(@, @.next, TRUE)
                                EXCEPT !.next = NULL]], s, i, e0, "ok")
           ELSE TeeRead(T, s, i, e0, "failed")
           : ok \in PushResults}
    ELSE TeeRead(T, s, i, e0, "none")

\* tee_iter_next() on sibling i, entered with errno = e0: every outcome
TeeNext(T, s, i, e0) ==
    IF T[i].queue # <<>>
    THEN {[tee |-> [T EXCEPT ![i].queue = Tail(@)], sub |-> s,
           ret |-> Head(T[i].queue), errno |-> e0, failed |-> FALSE,
           retry |-> "none"]}
    ELSE IF T[i].clone /\ T[Other(i)].next # NULL
    THEN UNION {
           IF ok
           THEN TeeRead([T EXCEPT ![Other(i)] =
                            [tee_iter_share(@, @.next, TRUE)
                                EXCEPT !.next = NULL]], s, i, e0, "ok")
           ELSE {[tee |-> T, sub |-> s, ret |-> NULL, errno |-> ENOMEM,
                  failed |-> TRUE, retry |-> "failed"]}
           : ok \in PushResults}
    ELSE TeeRead(T, s, i, e0, "none")

tee_iter_next(i) ==
    /\ tee[i].alive
    /\ sub.destroyed = 0
    /\ \E e0 \in {errno} :
       \E r \in TeeNext(tee, sub, i, e0) :
          /\ tee' = r.tee
          /\ sub' = r.sub
          /\ ret' = r.ret
          /\ errno' = r.errno
          /\ errnoIn' = e0
          /\ last' = <<"tee_next", i>>
          /\ failure' = IF r.sub.errs < sub.errs THEN EIO
                        ELSE IF r.failed THEN ENOMEM ELSE NoErr
          /\ teeH' = [teeH EXCEPT
                 !.seen[i] = IF r.ret # NULL THEN Append(@, r.ret) ELSE @,
                 !.eof[i] = @ \/ (r.ret = NULL /\ r.errno = ENODATA),
                 !.pushFails = IF r.failed THEN @ + 1 ELSE @,
                 !.call = [popped |-> tee[i].queue # <<>>,
                           pend |-> [j \in Sibling |-> tee[j].next],
                           index |-> sub.index,
                           retry |-> r.retry,
                           shareFailed |-> r.failed /\ r.retry # "failed"]]
    /\ UNCHANGED ckVars
    /\ UNCHANGED mongoVars
    /\ UNCHANGED queryVars
    /\ UNCHANGED uriVars

\* A tee_iter_destroy() that destroys the underlying iterator every time
tee_iter_destroy_sub(i) ==
    /\ tee[i].alive
    /\ tee' = [j \in Sibling |->
                 IF j = i
                 THEN [clone |-> FALSE, queue |-> <<>>, next |-> NULL,
                       alive |-> FALSE]
                 ELSE IF tee[i].clone THEN [tee[j] EXCEPT !.clone = FALSE]
                 ELSE tee[j]]
    /\ sub' = [sub EXCEPT !.destroyed = @ + 1]
    /\ last' = <<"tee_destroy", i>>
    /\ failure' = NoErr
    /\ UNCHANGED <<errno, errnoIn, ret, teeH>>
    /\ UNCHANGED ckVars
    /\ UNCHANGED mongoVars
    /\ UNCHANGED queryVars
    /\ UNCHANGED uriVars

\* A tee_iter_destroy() that also drops what is pending for the sibling left
tee_iter_destroy_pending(i) ==
    /\ tee[i].alive
    /\ tee' = [j \in Sibling |->
                 IF j = i
                 THEN [clone |-> FALSE, queue |-> <<>>, next |-> NULL,
                       alive |-> FALSE]
                 ELSE IF tee[i].clone
                 THEN [tee[j] EXCEPT !.clone = FALSE, !.next = NULL]
                 ELSE tee[j]]
    /\ sub' = IF tee[i].clone THEN sub ELSE [sub EXCEPT !.destroyed = @ + 1]
    /\ last' = <<"tee_destroy", i>>
    /\ failure' = NoErr
    /\ UNCHANGED <<errno, errnoIn, ret, teeH>>
    /\ UNCHANGED ckVars
    /\ UNCHANGED mongoVars
    /\ UNCHANGED queryVars
    /\ UNCHANGED uriVars

\* tee_iter_destroy(): unlink from the sibling, or destroy the underlying
\* iterator when there is no sibling left
tee_iter_destroy(i) ==
    /\ tee[i].alive
    /\ tee' = [j \in Sibling |->
                 IF j = i
                 THEN [clone |-> FALSE, queue |-> <<>>, next |-> NULL,
                       alive |-> FALSE]
                 ELSE IF tee[i].clone THEN [tee[j] EXCEPT !.clone = FALSE]
                 ELSE tee[j]]
    /\ sub' = IF tee[i].clone THEN sub ELSE [sub EXCEPT !.destroyed = @ + 1]
    /\ last' = <<"tee_destroy", i>>
    /\ failure' = NoErr
    /\ UNCHANGED <<errno, errnoIn, ret, teeH>>
    /\ UNCHANGED ckVars
    /\ UNCHANGED mongoVars
    /\ UNCHANGED queryVars
    /\ UNCHANGED uriVars

(***************************************************************************)
(* rbh_iter_chunkify()                                                     *)
(***************************************************************************)
MaxChunk == 2        \* largest chunk size tried
MaxAllocFails == 1   \* failures of malloc() injected into chunkify

CkInit ==
    /\ ck = [state |-> "none", chunk |-> 0]
    /\ chunks = <<>>
    /\ ckH = [allocFails |-> 0, skipped |-> FALSE, eof |-> FALSE]

MallocResults ==
    IF ckH.allocFails < MaxAllocFails THEN {TRUE, FALSE} ELSE {TRUE}

\* A rbh_iter_chunkify() that takes any chunk size
rbh_iter_chunkify_any(chunk) ==
    /\ ck.state = "none"
    /\ last[1] = "init"
    /\ \E e0 \in {errno}, ok \in MallocResults :
          /\ errnoIn' = e0
          /\ IF ~ok
             THEN /\ errno' = ENOMEM
                  /\ ret' = NULL
                  /\ ckH' = [ckH EXCEPT !.allocFails = @ + 1]
                  /\ UNCHANGED ck
             ELSE /\ errno' = e0
                  /\ ret' = 1
                  /\ ck' = [state |-> "live", chunk |-> chunk]
                  /\ UNCHANGED ckH
          /\ failure' = IF ~ok THEN ENOMEM ELSE NoErr
    /\ last' = <<"chunkify", chunk>>
    /\ UNCHANGED <<sub, chunks>>
    /\ UNCHANGED teeVars
    /\ UNCHANGED mongoVars
    /\ UNCHANGED queryVars
    /\ UNCHANGED uriVars

\* rbh_iter_chunkify(iterator, chunk)
rbh_iter_chunkify(chunk) ==
    /\ ck.state = "none"
    /\ last[1] = "init"
    /\ \E e0 \in {errno}, ok \in MallocResults :
          /\ errnoIn' = e0
          /\ IF chunk = 0
             THEN /\ errno' = EINVAL
                  /\ ret' = NULL
                  /\ UNCHANGED <<ck, ckH>>
             ELSE IF ~ok
             THEN /\ errno' = ENOMEM
                  /\ ret' = NULL
                  /\ ckH' = [ckH EXCEPT !.allocFails = @ + 1]
                  /\ UNCHANGED ck
             ELSE /\ errno' = e0
                  /\ ret' = 1
                  /\ ck' = [state |-> "live", chunk |-> chunk]
                  /\ UNCHANGED ckH
          /\ failure' = IF chunk # 0 /\ ~ok THEN ENOMEM ELSE NoErr
    /\ last' = <<"chunkify", chunk>>
    /\ UNCHANGED <<sub, chunks>>
    /\ UNCHANGED teeVars
    /\ UNCHANGED mongoVars
    /\ UNCHANGED queryVars
    /\ UNCHANGED uriVars

\* A chunk iterator that reads `chunk' elements after its first one
chunk_new_full(first, chunk) ==
    [first |-> first, count |-> chunk, once |-> FALSE, out |-> <<>>,
     ended |-> FALSE]

\* A chunk iterator whose first element counts as already returned
chunk_new_once(first, chunk) ==
    [first |-> first, count |-> chunk - 1, once |-> TRUE, out |-> <<>>,
     ended |-> FALSE]

\* The struct chunk_iterator that chunkify_iter_next() fills in; `out' and
\* `ended' record what the chunk iterator has returned since
chunk_new(first, chunk) ==
    [first |-> first, count |-> chunk - 1, once |-> FALSE, out |-> <<>>,
     ended |-> FALSE]

\* chunkify_iter_next(): read the first element of the next chunk, then
\* allocate the chunk iterator.  The value returned is the chunk iterator,
\* here its position in `chunks'.
\* The chunk iterator returned last has not reported no-more-data yet
LastChunkOpen == chunks # <<>> /\ ~chunks[Len(chunks)].ended

chunkify_iter_next ==
    /\ ck.state = "live"
    /\ \E e0 \in {errno}, o \in rbh_iter_next(sub), ok \in MallocResults :
          /\ errnoIn' = e0
          /\ sub' = o.sub
          /\ IF o.elem = NULL /\ o.err # "keep"
             THEN /\ ret' = NULL
                  /\ errno' = o.err
                  /\ chunks' = chunks
                  /\ ckH' = [ckH EXCEPT !.eof = @ \/ o.err = ENODATA,
                                        !.skipped = @ \/ LastChunkOpen]
                  /\ failure' = IF o.sub.errs < sub.errs THEN EIO ELSE NoErr
             ELSE IF ~ok
             THEN /\ ret' = NULL
                  /\ errno' = ENOMEM
                  /\ chunks' = chunks
                  /\ ckH' = [ckH EXCEPT !.allocFails = @ + 1,
                                        !.skipped = @ \/ LastChunkOpen]
                  /\ failure' = ENOMEM
             ELSE /\ ret' = Len(chunks) + 1
                  /\ errno' = e0
                  /\ chunks' = Append(chunks, chunk_new(o.elem, ck.chunk))
                  /\ ckH' = [ckH EXCEPT !.skipped = @ \/ LastChunkOpen]
                  /\ failure' = NoErr
    /\ last' = <<"chunkify_next", 0>>
    /\ UNCHANGED ck
    /\ UNCHANGED teeVars
    /\ UNCHANGED mongoVars
    /\ UNCHANGED queryVars
    /\ UNCHANGED uriVars

\* chunk_iter_next() on the c-th chunk iterator returned
chunk_iter_next(c) ==
    /\ c \in DOMAIN chunks
    /\ ck.state = "live"
    /\ \E e0 \in {errno} :
          /\ errnoIn' = e0
          /\ IF ~chunks[c].once
             THEN /\ chunks' = [chunks EXCEPT ![c].once = TRUE,
                                   ![c].out = Append(@, chunks[c].first)]
                  /\ ret' = chunks[c].first
                  /\ errno' = e0
                  /\ sub' = sub
                  /\ failure' = NoErr
             ELSE IF chunks[c].count = 0
             THEN /\ chunks' = [chunks EXCEPT ![c].ended = TRUE]
                  /\ ret' = NULL
                  /\ errno' = ENODATA
                  /\ sub' = sub
                  /\ failure' = NoErr
             ELSE \E o \in rbh_iter_next(sub) :
                  /\ sub' = o.sub
                  /\ ret' = o.elem
                  /\ errno' = ErrnoAfter(e0, o)
                  /\ failure' = IF o.sub.errs < sub.errs THEN EIO ELSE NoErr
                  /\ chunks' = [chunks EXCEPT
                        ![c].count = IF o.elem # NULL \/ o.err = "keep"
                                     THEN @ - 1 ELSE @,
                        ![c].out = IF o.elem # NULL THEN Append(@, o.elem)
                                   ELSE @,
                        ![c].ended = @ \/ (o.elem = NULL /\ o.err = ENODATA)]
    /\ last' = <<"chunk_next", 0>>
    /\ UNCHANGED <<ck, ckH>>
    /\ UNCHANGED teeVars
    /\ UNCHANGED mongoVars
    /\ UNCHANGED queryVars
    /\ UNCHANGED uriVars

\* chunkify_iter_destroy(): destroys the underlying iterator as well
chunkify_iter_destroy ==
    /\ ck.state = "live"
    /\ ck' = [ck EXCEPT !.state = "destroyed"]
    /\ sub' = [sub EXCEPT !.destroyed = @ + 1]
    /\ last' = <<"chunkify_destroy", 0>>
    /\ failure' = NoErr
    /\ UNCHANGED <<errno, errnoIn, ret, chunks, ckH>>
    /\ UNCHANGED teeVars
    /\ UNCHANGED mongoVars
    /\ UNCHANGED queryVars
    /\ UNCHANGED uriVars

(***************************************************************************)
(* The MongoDB backend: mongo_backend_update()                             *)
(*                                                                         *)
(* The collection `entries' is a function from ids to documents.  A        *)
(* document holds the namespace array `ns' and whether statx and xattrs    *)
(* have been set.  Events target the entry X; Y is another entry of the    *)
(* collection.                                                             *)
(***************************************************************************)
MaxEvents == 2       \* longest stream of fsevents given to one update

EAGAIN == "EAGAIN"
RBH_BACKEND_ERROR == "RBH_BACKEND_ERROR"

Ids == {"X", "Y"}
EventIds == {"X"}
P1a == [parent_id |-> "P1", name |-> "a"]     \* the namespace edge {P1, "a"}

NoDoc == [present |-> FALSE, ns |-> <<>>, statx |-> FALSE, xattrs |-> FALSE]
EmptyDoc == [NoDoc EXCEPT !.present = TRUE]
EmptyStore == [id \in Ids |-> NoDoc]

\* struct rbh_fsevent
RBH_FET_DELETE == "delete"
RBH_FET_LINK == "link"
RBH_FET_UNLINK == "unlink"
RBH_FET_UPSERT == "upsert"
RBH_FET_XATTR == "xattrs"
FsEventTypes ==
    {RBH_FET_DELETE, RBH_FET_LINK, RBH_FET_UNLINK, RBH_FET_UPSERT, RBH_FET_XATTR}
FsEvents == [type : FsEventTypes, id : EventIds, link : {P1a}]

RECURSIVE SeqsUpTo(_, _)
SeqsUpTo(S, n) ==
    IF n = 0 THEN {<<>>}
    ELSE LET shorter == SeqsUpTo(S, n - 1)
         IN  shorter \cup {Append(s, x) : s \in {t \in shorter : Len(t) = n - 1},
                                          x \in S}

NoUpdate == [op |-> "none", edge |-> P1a]     \* remove_one takes no update

\* bson_from_unlink(): remove the edge from the namespace array
bson_from_unlink(parent_id, name) ==
    [op |-> "pull", edge |-> [parent_id |-> parent_id, name |-> name]]

\* bson_update_from_fsevent()
bson_update_from_fsevent(fsevent) ==
    CASE fsevent.type = RBH_FET_LINK ->
            [op |-> "push", edge |-> fsevent.link]
      [] fsevent.type = RBH_FET_UNLINK ->
            bson_from_unlink(fsevent.link.parent_id, fsevent.link.name)
      [] fsevent.type = RBH_FET_UPSERT -> [op |-> "statx", edge |-> P1a]
      [] OTHER -> [op |-> "xattrs", edge |-> P1a]

\* An empty selector: it matches every document
BSON_APPEND_NO_FILTER(fsevent) == "any"

\* BSON_APPEND_RBH_ID_FILTER(&selector, MFF_ID, &fsevent->id)
BSON_APPEND_RBH_ID_FILTER(fsevent) == fsevent.id

\* A lowering in which every update is an upsert
mongo_bulk_append_fsevent_upsert(fsevent) ==
    LET selector == BSON_APPEND_RBH_ID_FILTER(fsevent)
    IN  CASE fsevent.type = RBH_FET_DELETE ->
                << [kind |-> "remove_one", selector |-> selector,
                    update |-> NoUpdate, upsert |-> FALSE, part |-> 0] >>
          [] fsevent.type = RBH_FET_LINK ->
                << [kind |-> "update_one", selector |-> selector,
                    update |-> bson_from_unlink(fsevent.link.parent_id,
                                                fsevent.link.name),
                    upsert |-> TRUE, part |-> 1],
                   [kind |-> "update_one", selector |-> selector,
                    update |-> bson_update_from_fsevent(fsevent),
                    upsert |-> TRUE, part |-> 2] >>
          [] OTHER ->
                << [kind |-> "update_one", selector |-> selector,
                    update |-> bson_update_from_fsevent(fsevent),
                    upsert |-> TRUE, part |-> 0] >>

\* mongo_bulk_append_fsevent(): the operations appended to the bulk for one
\* fsevent.  `part' tells the two operations of a link apart (1: the unlink,
\* 2: the update) from the operations that stand alone (0).
mongo_bulk_append_fsevent(fsevent) ==
    LET selector == BSON_APPEND_RBH_ID_FILTER(fsevent)
    IN  CASE fsevent.type = RBH_FET_DELETE ->
                << [kind |-> "remove_one", selector |-> selector,
                    update |-> NoUpdate, upsert |-> FALSE, part |-> 0] >>
          [] fsevent.type = RBH_FET_LINK ->
                << [kind |-> "update_one", selector |-> selector,
                    update |-> bson_from_unlink(fsevent.link.parent_id,
                                                fsevent.link.name),
                    upsert |-> FALSE, part |-> 1],
                   [kind |-> "update_one", selector |-> selector,
                    update |-> bson_update_from_fsevent(fsevent),
                    upsert |-> fsevent.type # RBH_FET_UNLINK, part |-> 2] >>
          [] OTHER ->
                << [kind |-> "update_one", selector |-> selector,
                    update |-> bson_update_from_fsevent(fsevent),
                    upsert |-> fsevent.type # RBH_FET_UNLINK, part |-> 0] >>

\* The count returned is the number of operations appended
mongo_bulk_count_ops(fsevents) ==
    Len(Flatten([k \in DOMAIN fsevents |->
                    mongo_bulk_append_fsevent(fsevents[k])]))

\* mongo_bulk_init_from_fsevents(): the count it returns when the iterator
\* ends with ENODATA and every fsevent could be appended
mongo_bulk_init_from_fsevents(fsevents) == Len(fsevents)

\* The bulk once every fsevent has been appended
BulkOf(fsevents) ==
    Flatten([k \in DOMAIN fsevents |-> mongo_bulk_append_fsevent(fsevents[k])])

\* Where the lowering of a stream may stop, on its at-th fsevent:
\*   "iterator"     rbh_iter_next() fails instead of returning it
\*   "selector"     BSON_APPEND_RBH_ID_FILTER() fails
\*   "unlink_bson"  bson_from_unlink() returns NULL (link)
\*   "unlink"       the update_one of the unlink is refused (link)
\*   "op_bson"      bson_update_from_fsevent() returns NULL
\*   "op"           the update_one, or the remove_one, is refused
NoStop == [kind |-> "none", at |-> 0]
Stops(fsevents) ==
    {[kind |-> kind, at |-> at] :
        at \in DOMAIN fsevents,
        kind \in {"iterator", "selector", "unlink_bson", "unlink", "op_bson",
                  "op"}}
    \ {stop \in [kind : {"unlink_bson", "unlink", "op_bson"},
                 at : DOMAIN fsevents] :
          \/ /\ stop.kind \in {"unlink_bson", "unlink"}
             /\ fsevents[stop.at].type # RBH_FET_LINK
          \/ /\ stop.kind = "op_bson"
             /\ fsevents[stop.at].type = RBH_FET_DELETE}

\* A lowering of a link that goes on to the update when the unlink is refused
AppendedOfFallthrough(fsevent, kind) ==
    IF fsevent.type = RBH_FET_LINK /\ kind \in {"op_bson", "op"}
    THEN <<mongo_bulk_append_fsevent(fsevent)[1]>>
    ELSE IF fsevent.type = RBH_FET_LINK /\ kind = "unlink"
    THEN <<mongo_bulk_append_fsevent(fsevent)[2]>>
    ELSE <<>>

\* What mongo_bulk_append_fsevent() has appended for the fsevent it fails
\* on: the unlink of a link whose update could not be appended, or nothing
AppendedOf(fsevent, kind) ==
    IF fsevent.type = RBH_FET_LINK /\ kind \in {"op_bson", "op"}
    THEN <<mongo_bulk_append_fsevent(fsevent)[1]>>
    ELSE <<>>

\* The bulk when mongo_bulk_init_from_fsevents() returns
Issued(fsevents, stop) ==
    IF stop = NoStop THEN BulkOf(fsevents)
    ELSE BulkOf(SubSeq(fsevents, 1, stop.at - 1))
            \o AppendedOf(fsevents[stop.at], stop.kind)

\* A loop that takes a failure of the iterator for the end of the stream
InitCountUntilNull(fsevents, stop) ==
    IF stop = NoStop THEN mongo_bulk_init_from_fsevents(fsevents)
    ELSE IF stop.kind = "iterator" THEN stop.at - 1
    ELSE -1

\* What mongo_bulk_init_from_fsevents() returns
InitCount(fsevents, stop) ==
    IF stop = NoStop THEN mongo_bulk_init_from_fsevents(fsevents) ELSE -1

\* errno when it returns -1: the iterator's error, EINVAL for an operation
\* that the bulk refused, and whatever libbson left when it failed (errno
\* was zeroed when the loop was entered)
InitErrnos(stop) ==
    CASE stop.kind = "iterator" -> {EIO}
      [] stop.kind \in {"unlink", "op"} -> {EINVAL}
      [] OTHER -> {NoErr, ENOMEM}

(***************************************************************************)
(* The server's side of a bulk                                             *)
(***************************************************************************)
\* The document a selector matches: the one with that id; an empty selector
\* matches the first document of the collection
Matched(st, selector) ==
    IF selector \in Ids
    THEN IF st[selector].present THEN {selector} ELSE {}
    ELSE IF st["X"].present THEN {"X"}
    ELSE IF st["Y"].present THEN {"Y"} ELSE {}

\* The effect of an update document on one document
ApplyUpdate(doc, update) ==
    CASE update.op = "pull" ->
            [doc EXCEPT !.ns = SelectSeq(@, LAMBDA e : e # update.edge)]
      [] update.op = "push" -> [doc EXCEPT !.ns = Append(@, update.edge)]
      [] update.op = "statx" -> [doc EXCEPT !.statx = TRUE]
      [] OTHER -> [doc EXCEPT !.xattrs = TRUE]

\* The effect of one operation of a bulk on the collection
ApplyOp(st, o) ==
    LET m == Matched(st, o.selector)
    IN  IF o.kind = "remove_one"
        THEN [id \in Ids |-> IF id \in m THEN NoDoc ELSE st[id]]
        ELSE IF m # {}
        THEN [id \in Ids |-> IF id \in m THEN ApplyUpdate(st[id], o.update)
                             ELSE st[id]]
        ELSE IF o.upsert /\ o.selector \in Ids
        THEN [st EXCEPT ![o.selector] = ApplyUpdate(EmptyDoc, o.update)]
        ELSE st

RECURSIVE ApplySeq(_, _)
ApplySeq(st, ops) ==
    IF ops = <<>> THEN st ELSE ApplySeq(ApplyOp(st, Head(ops)), Tail(ops))

\* The orders in which the server may execute a bulk of n operations
ExecOrders(n, ordered) ==
    IF ordered THEN {[k \in 1..n |-> k]} ELSE Permutations(1..n)

\* The bulk is created with ordered = false
BulkOrdered == FALSE

\* Whether the two operations of every link of the bulk are executed one
\* right after the other, the unlink first, when the k-th operation executed
\* is bulk[order[k]]
PairsKept(bulk, order) ==
    \A k \in DOMAIN bulk :
        bulk[k].part = 1 =>
            \E j \in 1..(Len(bulk) - 1) : order[j] = k /\ order[j + 1] = k + 1

\* What the call may meet: nothing, no memory for the bulk, or a failure of
\* mongoc_bulk_operation_execute() whose reply carries the label
\* TransientTransactionError or does not; the fault names error.message
Faults == {"none", "ENOMEM", "TransientTransactionError", "WriteError"}

\* The labels of the reply to a bulk that met `fault'
ReplyLabels(fault) ==
    IF fault = "TransientTransactionError" THEN {fault} ELSE {}

\* mongoc_error_has_label(&reply, "TransientTransactionError")
mongoc_error_has_label(reply, label) == label \in reply

\* errnum after a failed execute, given whether the reply has the label
ExecErrnumSwapped(has_label) == IF has_label THEN RBH_BACKEND_ERROR ELSE EAGAIN

ExecErrnum(has_label) == IF has_label THEN EAGAIN ELSE RBH_BACKEND_ERROR

\* The collections an update may find: X absent or in any state updates
\* leave it in, Y absent or linked under P1
Collections ==
    {[id \in Ids |-> IF id = "X" THEN x ELSE y] :
        x \in {NoDoc} \cup
              [present : {TRUE},
               ns : {[k \in 1..n |-> P1a] : n \in 0..MaxEvents},
               statx : BOOLEAN, xattrs : BOOLEAN],
        y \in {NoDoc, [EmptyDoc EXCEPT !.ns = <<P1a>>]}}

NoBulk == [issued |-> <<>>, executed |-> 0, kept |-> TRUE, reply |-> {},
           message |-> "", stopped |-> NoStop, eof |-> FALSE]

MongoInit ==
    /\ store \in Collections
    /\ storeBefore = store
    /\ lastBatch = <<>>
    /\ bulkRun = NoBulk
    /\ repeat = FALSE
    /\ rbh_backend_error = <<"", "">>

MongoIdle ==
    /\ store = EmptyStore
    /\ storeBefore = store
    /\ lastBatch = <<>>
    /\ bulkRun = NoBulk
    /\ repeat = FALSE
    /\ rbh_backend_error = <<"", "">>

\* mongoc_bulk_operation_execute() when it succeeds: the collections it may
\* leave and, for each, whether the pair of every link was kept together
mongoc_bulk_operation_execute(st, bulk) ==
    LET n == Len(bulk)
    IN  {[store |-> ApplySeq(st, [k \in 1..n |-> bulk[order[k]]]),
          kept |-> PairsKept(bulk, order)] :
            order \in ExecOrders(n, BulkOrdered)}

\* The stream of scenario S6: link, unlink, delete of the same entry
FsEvent(type) == [type |-> type, id |-> "X", link |-> P1a]
S6 == <<FsEvent(RBH_FET_LINK), FsEvent(RBH_FET_UNLINK), FsEvent(RBH_FET_DELETE)>>

\* The streams a caller submits: any stream to begin with, then the one it
\* submitted last, again, unless that one could not be read or lowered
Streams ==
    IF last[1] = "init" THEN SeqsUpTo(FsEvents, MaxEvents) \cup {S6}
    ELSE IF bulkRun.stopped # NoStop THEN {}
    ELSE {lastBatch}

\* The failures of the lowering that are injected: any, into the first
\* update of a caller (the collection it finds is any of Collections)
StopsTried(fsevents) == IF last[1] = "init" THEN Stops(fsevents) ELSE {}

\* mongo_backend_update(): lower the whole stream into one bulk, execute it
mongo_backend_update ==
    \E fsevents \in Streams, fault \in Faults :
    \E stop \in IF fault = "none" THEN {NoStop} \cup StopsTried(fsevents)
                ELSE {NoStop} :
        LET bulk == Issued(fsevents, stop)
            count == InitCount(fsevents, stop)
        IN  /\ lastBatch' = IF stop = NoStop THEN fsevents
                            ELSE SubSeq(fsevents, 1, stop.at)
            /\ storeBefore' = store
            /\ errnoIn' = errno
            /\ last' = <<"update", 0>>
            /\ failure' = NoErr
            /\ \/ /\ fault = "ENOMEM"
                  /\ ret' = -1
                  /\ errno' = ENOMEM
                  /\ store' = store
                  /\ bulkRun' = NoBulk
                  /\ repeat' = FALSE
                  /\ UNCHANGED rbh_backend_error
               \/ /\ fault = "none"
                  /\ count <= 0
                  /\ ret' = count
                  /\ errno' \in IF stop = NoStop THEN {errno}
                                ELSE InitErrnos(stop)
                  /\ store' = store
                  /\ bulkRun' = [NoBulk EXCEPT !.issued = bulk,
                                    !.stopped = stop,
                                    !.eof = stop.kind = "none"]
                  /\ repeat' = (last[1] = "update" /\ ret >= 0
                                    /\ stop = NoStop)
                  /\ UNCHANGED rbh_backend_error
               \/ /\ fault = "none"
                  /\ count > 0
                  /\ \E r \in mongoc_bulk_operation_execute(store, bulk) :
                        /\ store' = r.store
                        /\ bulkRun' = [NoBulk EXCEPT !.issued = bulk,
                                          !.executed = 1, !.kept = r.kept,
                                          !.stopped = stop,
                                          !.eof = stop.kind = "none"]
                  /\ ret' = count
                  /\ errno' = errno
                  /\ repeat' = (last[1] = "update" /\ ret >= 0)
                  /\ UNCHANGED rbh_backend_error
               \/ /\ fault \in {"TransientTransactionError", "WriteError"}
                  /\ count > 0
                  /\ store' = store
                  /\ bulkRun' = [NoBulk EXCEPT !.issued = bulk,
                                    !.executed = 1,
                                    !.reply = ReplyLabels(fault),
                                    !.message = fault,
                                    !.eof = TRUE]
                  /\ ret' = -1
                  /\ errno' = ExecErrnum(mongoc_error_has_label(
                                  ReplyLabels(fault),
                                  "TransientTransactionError"))
                  /\ rbh_backend_error' = <<"mongoc: ", fault>>
                  /\ repeat' = FALSE
    /\ UNCHANGED <<sub, tee, teeH, ck, chunks, ckH>>
    /\ UNCHANGED queryVars
    /\ UNCHANGED uriVars

(***************************************************************************)
(* The MongoDB backend: filter_fsentries(), root() and the result iterator *)
(*                                                                         *)
(* A collection that is queried holds entries linked under the root (the   *)
(* zero-length id), under P1, under both, or not linked at all.            *)
(***************************************************************************)
ENOBUFS == "ENOBUFS"
ENOENT == "ENOENT"

RootId == ""                                  \* the zero-length identifier
RootEdge == [parent_id |-> RootId, name |-> ""]

\* The bits of the fsentry mask and of the statx mask
FsentryFields == {"ID", "PARENT_ID", "NAME", "STATX"}
StatxFields == {"MODE", "SIZE"}

\* struct rbh_filter: NULL matches every fsentry, otherwise a comparison
RBH_FOP_EQUAL == "="
RBH_FP_PARENT_ID == "parent_id"
NullFilter == [op |-> "null", field |-> "", value |-> ""]

\* A filter that selects the fsentries linked under P1
ROOT_FILTER_P1 ==
    [op |-> RBH_FOP_EQUAL, field |-> RBH_FP_PARENT_ID, value |-> "P1"]

\* ROOT_FILTER: parent_id equal to the binary value of size 0
ROOT_FILTER ==
    [op |-> RBH_FOP_EQUAL, field |-> RBH_FP_PARENT_ID, value |-> RootId]

Filters == {NullFilter, ROOT_FILTER,
            [op |-> RBH_FOP_EQUAL, field |-> RBH_FP_PARENT_ID, value |-> "P1"]}

\* bson_pipeline_from_filter(): $unwind the namespace, then $match the filter
bson_pipeline_from_filter(filter) ==
    << [stage |-> "$unwind", path |-> "ns", filter |-> NullFilter],
       [stage |-> "$match", path |-> "", filter |-> filter] >>

\* The documents of the collection, in its natural order
IdOrder == <<"X", "Y">>
Documents(st) ==
    Flatten([k \in DOMAIN IdOrder |->
                LET id == IdOrder[k]
                IN  IF st[id].present
                    THEN << [id |-> id, ns |-> st[id].ns,
                             statx |-> st[id].statx] >>
                    ELSE <<>>])

\* $unwind: one document per element of ns, ns being that element; a
\* document whose ns is empty yields nothing
Unwind(docs) ==
    Flatten([k \in DOMAIN docs |->
                [j \in DOMAIN docs[k].ns |-> [docs[k] EXCEPT !.ns = @[j]]]])

\* BSON_APPEND_RBH_FILTER(): whether a document, unwound, matches the filter
MatchesFilter(doc, filter) ==
    \/ filter.op = "null"
    \/ /\ filter.op = RBH_FOP_EQUAL
       /\ filter.field = RBH_FP_PARENT_ID
       /\ doc.ns.parent_id = filter.value

RECURSIVE RunPipeline(_, _)
RunPipeline(docs, pipeline) ==
    IF pipeline = <<>> THEN docs
    ELSE LET stage == Head(pipeline)
         IN  RunPipeline(IF stage.stage = "$unwind" THEN Unwind(docs)
                         ELSE SelectSeq(docs,
                                  LAMBDA d : MatchesFilter(d, stage.filter)),
                         Tail(pipeline))

\* mongoc_collection_aggregate(): the documents the cursor will return
mongoc_collection_aggregate(st, pipeline) ==
    RunPipeline(Documents(st), pipeline)

\* fsentry_from_bson(): the fsentry of a document, with every field that
\* the document holds
NoEntry == [mask |-> {}, statx_mask |-> {}, id |-> "", parent_id |-> "",
            name |-> ""]
fsentry_from_bson(doc) ==
    [mask |-> {"ID", "PARENT_ID", "NAME"}
                 \cup (IF doc.statx THEN {"STATX"} ELSE {}),
     statx_mask |-> IF doc.statx THEN StatxFields ELSE {},
     id |-> doc.id, parent_id |-> doc.ns.parent_id, name |-> doc.ns.name]

\* errno as libmongoc may leave it: the driver reports its errors in a
\* bson_error_t, errno is whatever its last system call made of it
DriverErrnos == {NoErr, EIO}

NoCursor == [state |-> "none", docs |-> <<>>, pos |-> 0, errs |-> 0,
             failed |-> FALSE]
NoQuery == [op |-> "none", filter |-> NullFilter, fsentry_mask |-> {},
            statx_mask |-> {}, entry |-> NoEntry, fault |-> "none"]

QueryIdle ==
    /\ cursor = NoCursor
    /\ query = NoQuery

\* mongoc_cursor_next(): the next document, or false at the end of the
\* results and when the cursor fails (the server or the connection is lost)
mongoc_cursor_next(c) ==
    (IF c.failed THEN {}
     ELSE IF c.pos < Len(c.docs)
     THEN {[more |-> TRUE, doc |-> c.docs[c.pos + 1], errno |-> d,
            cursor |-> [c EXCEPT !.pos = @ + 1]] : d \in DriverErrnos}
     ELSE {[more |-> FALSE, doc |-> NoEntry, errno |-> NoErr, cursor |-> c]})
    \cup
    (IF c.failed \/ c.errs > 0
     THEN {[more |-> FALSE, doc |-> NoEntry, errno |-> d,
            cursor |-> [c EXCEPT !.failed = TRUE,
                                 !.errs = IF c.failed THEN @ ELSE @ - 1]] :
              d \in DriverErrnos}
     ELSE {})

\* mongo_iter_next() on cursor c, entered with errno = e0: every outcome
MongoIterNext(c, e0) ==
    {IF o.more
     THEN [ret |-> 1, errno |-> e0, entry |-> fsentry_from_bson(o.doc),
           cursor |-> o.cursor]
     ELSE [ret |-> NULL, errno |-> IF o.errno # NoErr THEN o.errno ELSE ENODATA,
           entry |-> NoEntry, cursor |-> o.cursor]
     : o \in mongoc_cursor_next(c)}

\* What mongo_backend_filter_fsentries() may meet: nothing, no room for the
\* pipeline, no cursor, or no memory for the iterator
QueryFaults == {"none", ENOBUFS, EINVAL, ENOMEM}

\* mongo_backend_filter_fsentries() on collection st: the cursor it opens, or
\* its failure.  Neither mask is read.
FilterFsentries(st, filter, fsentry_mask, statx_mask, e0) ==
    {IF fault = "none"
     THEN [ret |-> 1, errno |-> e0, fault |-> fault,
           cursor |-> [state |-> "open",
                       docs |-> mongoc_collection_aggregate(
                                    st, bson_pipeline_from_filter(filter)),
                       pos |-> 0, errs |-> errs, failed |-> FALSE]]
     ELSE [ret |-> NULL, errno |-> fault, fault |-> fault, cursor |-> NoCursor]
     : fault \in QueryFaults, errs \in 0..MaxSubErrs}

\* The callers modelled issue one filter query and read its results, or
\* they issue root queries
mongo_backend_filter_fsentries(filter, fsentry_mask, statx_mask) ==
    /\ cursor.state = "none"
    /\ last[1] = "init"
    /\ \E r \in FilterFsentries(store, filter, fsentry_mask, statx_mask, errno) :
          /\ cursor' = r.cursor
          /\ ret' = r.ret
          /\ errno' = r.errno
          /\ query' = [op |-> "filter", filter |-> filter,
                       fsentry_mask |-> fsentry_mask,
                       statx_mask |-> statx_mask, entry |-> NoEntry,
                       fault |-> r.fault]
    /\ errnoIn' = errno
    /\ last' = <<"filter", 0>>
    /\ failure' = NoErr
    /\ UNCHANGED <<sub, tee, teeH, ck, chunks, ckH>>
    /\ UNCHANGED mongoVars
    /\ UNCHANGED uriVars

mongo_iter_next ==
    /\ cursor.state = "open"
    /\ \E r \in MongoIterNext(cursor, errno) :
          /\ cursor' = r.cursor
          /\ ret' = r.ret
          /\ errno' = r.errno
          /\ query' = [query EXCEPT !.op = "next", !.entry = r.entry]
          /\ failure' = IF r.cursor.failed THEN EIO ELSE NoErr
    /\ errnoIn' = errno
    /\ last' = <<"mongo_next", 0>>
    /\ UNCHANGED <<sub, tee, teeH, ck, chunks, ckH>>
    /\ UNCHANGED mongoVars
    /\ UNCHANGED uriVars

mongo_iter_destroy ==
    /\ cursor.state = "open"
    /\ cursor' = [cursor EXCEPT !.state = "destroyed"]
    /\ last' = <<"mongo_destroy", 0>>
    /\ failure' = NoErr
    /\ UNCHANGED <<sub, errno, errnoIn, ret, tee, teeH, ck, chunks, ckH, query>>
    /\ UNCHANGED mongoVars
    /\ UNCHANGED uriVars

\* rbh_backend_filter_one(): filter_fsentries(), one next, destroy; an empty
\* iterator is reported as ENOENT
rbh_backend_filter_one(st, filter, fsentry_mask, statx_mask, e0) ==
    UNION {
      IF f.ret = NULL
      THEN {[ret |-> NULL, errno |-> f.errno, entry |-> NoEntry,
             fault |-> f.fault]}
      ELSE {[ret |-> n.ret,
             errno |-> IF n.ret = NULL /\ n.errno = ENODATA THEN ENOENT
                       ELSE n.errno,
             entry |-> n.entry,
             fault |-> IF n.cursor.failed THEN "cursor" ELSE "none"] :
               n \in MongoIterNext(f.cursor, e0)}
      : f \in FilterFsentries(st, filter, fsentry_mask, statx_mask, e0)}

mongo_root(fsentry_mask, statx_mask) ==
    /\ last[1] \in {"init", "root"}
    /\ \E r \in rbh_backend_filter_one(store, ROOT_FILTER, fsentry_mask,
                                       statx_mask, errno) :
          /\ ret' = r.ret
          /\ errno' = r.errno
          /\ query' = [op |-> "root", filter |-> ROOT_FILTER,
                       fsentry_mask |-> fsentry_mask,
                       statx_mask |-> statx_mask, entry |-> r.entry,
                       fault |-> r.fault]
    /\ errnoIn' = errno
    /\ last' = <<"root", 0>>
    /\ failure' = NoErr
    /\ UNCHANGED <<sub, tee, teeH, ck, chunks, ckH, cursor>>
    /\ UNCHANGED mongoVars
    /\ UNCHANGED uriVars

\* The collections a query may find: each entry absent, or linked under the
\* root, under P1, under both or under neither, with or without statx
QueryDocs ==
    {NoDoc} \cup
    [present : {TRUE},
     ns : {<<>>, <<RootEdge>>, <<P1a>>, <<RootEdge, P1a>>, <<P1a, RootEdge>>},
     statx : BOOLEAN, xattrs : {FALSE}]
QueryCollections ==
    {[id \in Ids |-> IF id = "X" THEN x ELSE y] :
        x \in QueryDocs,
        y \in {NoDoc, [EmptyDoc EXCEPT !.ns = <<RootEdge>>],
               [EmptyDoc EXCEPT !.ns = <<P1a>>]}}

\* The masks a caller asks for
FsentryMasks == {{"ID", "PARENT_ID"}, FsentryFields}
StatxMasks == {{}, StatxFields}


(***************************************************************************)
(* rbh_parse_raw_uri()                                                     *)
(*                                                                         *)
(* A C string is the sequence of its characters, each a one-character      *)
(* string; NUL is what is read at its end.  A field of struct rbh_raw_uri  *)
(* is a NULL pointer or a string.                                          *)
(***************************************************************************)
MaxUri == 5          \* longest string tried character by character

Letters == {"a"}
Digits == {"1"}
Chars == Letters \cup Digits \cup {"+", ":", "/", "?", "#", "@"}
NUL == ""

Null == [null |-> TRUE, str |-> <<>>]
Str(s) == [null |-> FALSE, str |-> s]

ZeroUri == [scheme |-> Null, userinfo |-> Null, host |-> Null, port |-> Null,
            path |-> Null, query |-> Null, fragment |-> Null]

At(s, k) == IF k \in DOMAIN s THEN s[k] ELSE NUL
From(s, k) == SubSeq(s, k, Len(s))
Before(s, k) == SubSeq(s, 1, k - 1)

isalpha(c) == c \in Letters
isalnum(c) == c \in Letters \cup Digits

\* strchr() and strrchr(): the position of the first and of the last c in s,
\* 0 when there is none
strchr(s, c) ==
    IF \E k \in DOMAIN s : s[k] = c
    THEN CHOOSE k \in DOMAIN s : s[k] = c /\ \A j \in 1..(k - 1) : s[j] # c
    ELSE 0
strrchr(s, c) ==
    IF \E k \in DOMAIN s : s[k] = c
    THEN CHOOSE k \in DOMAIN s : s[k] = c /\ \A j \in (k + 1)..Len(s) : s[j] # c
    ELSE 0

\* strchrnul(s + from - 1, c): the position of the first c at or after
\* `from', the position of the terminating NUL when there is none
strchrnul(s, from, c) ==
    CHOOSE k \in from..(Len(s) + 1) :
        /\ At(s, k) \in {c, NUL}
        /\ \A j \in from..(k - 1) : s[j] # c

\* A scan of the scheme that stops at the first ':' whatever comes before it
SchemeEndAtColon(s) == strchrnul(s, 2, ":")

\* The do-while loop: the position of the first character after the first
\* one that may not be part of a scheme
SchemeEnd(s) ==
    CHOOSE k \in 2..(Len(s) + 1) :
        /\ ~(isalnum(At(s, k)) \/ At(s, k) \in {"+", "-", "."})
        /\ \A j \in 2..(k - 1) : isalnum(s[j]) \/ s[j] \in {"+", "-", "."}

\* [userinfo@]host[:port], once it has been moved left and terminated
ParseAuthority(u, authority) ==
    LET at == strchr(authority, "@")
        hostport == IF at # 0 THEN From(authority, at + 1) ELSE authority
        colon == strrchr(hostport, ":")
        host == IF colon # 0 THEN Before(hostport, colon) ELSE hostport
    IN  [u EXCEPT
            !.userinfo = IF at # 0 THEN Str(Before(authority, at)) ELSE Null,
            !.port = IF colon # 0 THEN Str(From(hostport, colon + 1)) ELSE Null,
            !.host = IF host = <<>> THEN Null ELSE Str(host)]

\* [//authority]path, once the fragment and the query have been cut off
ParseHierPart(u, s) ==
    IF At(s, 1) # "/" \/ At(s, 2) # "/"
    THEN [u EXCEPT !.path = Str(s)]
    ELSE LET path == strchrnul(s, 3, "/") IN
         IF path = 3
         THEN [u EXCEPT !.path = Str(From(s, 3))]
         ELSE ParseAuthority([u EXCEPT !.path = Str(From(s, path))],
                             SubSeq(s, 3, path - 1))

\* rbh_parse_raw_uri(uri, string): what it returns, the errno it sets ("keep"
\* when it leaves errno alone), whether it has written *uri, and *uri then
ParseRawUri(s) ==
    IF ~isalpha(At(s, 1))
    THEN [rc |-> -1, err |-> EINVAL, written |-> FALSE, uri |-> ZeroUri]
    ELSE LET colon == SchemeEnd(s) IN
    IF At(s, colon) # ":"
    THEN [rc |-> -1, err |-> EINVAL, written |-> TRUE,
          uri |-> [ZeroUri EXCEPT !.scheme = Str(s)]]
    ELSE LET s0 == From(s, colon + 1)
             hash == strrchr(s0, "#")
             s1 == IF hash # 0 THEN Before(s0, hash) ELSE s0
             qmark == strrchr(s1, "?")
             s2 == IF qmark # 0 THEN Before(s1, qmark) ELSE s1
             u == [ZeroUri EXCEPT
                     !.scheme = Str(Before(s, colon)),
                     !.fragment = IF hash # 0 THEN Str(From(s0, hash + 1))
                                  ELSE Null,
                     !.query = IF qmark # 0 THEN Str(From(s1, qmark + 1))
                               ELSE Null]
         IN  [rc |-> 0, err |-> "keep", written |-> TRUE,
              uri |-> ParseHierPart(u, s2)]

\* A struct rbh_raw_uri that nothing has written yet
Unset == "unset"
NoParts == [form |-> "none", c |-> Unset]

UriIdle ==
    /\ string = <<>>
    /\ given = NoParts
    /\ uri = Unset

rbh_parse_raw_uri ==
    /\ last[1] = "init"
    /\ given.form # "none"
    /\ LET r == ParseRawUri(string) IN
          /\ ret' = r.rc
          /\ errno' = IF r.err = "keep" THEN errno ELSE r.err
          /\ uri' = IF r.written THEN r.uri ELSE uri
    /\ errnoIn' = errno
    /\ last' = <<"parse_uri", 0>>
    /\ failure' = NoErr
    /\ UNCHANGED <<sub, string, given>>
    /\ UNCHANGED teeVars
    /\ UNCHANGED ckVars
    /\ UNCHANGED mongoVars
    /\ UNCHANGED queryVars

\* The strings the parser is given: every string of MaxUri characters at
\* most, and the strings written from components that RFC 3986 allows, as
\* scheme://userinfo@host:port path ?query #fragment or as scheme:path
RECURSIVE StringsUpTo(_)
StringsUpTo(n) ==
    IF n = 0 THEN {<<>>}
    ELSE LET shorter == StringsUpTo(n - 1) IN
         shorter \cup {Append(s, c) : s \in shorter, c \in Chars}

Schemes == {<<"a">>, <<"a", "+", "1">>}
Userinfos == {<<"a">>, <<"a", ":", "1">>}
Hosts == {<<"a">>, <<"a", "1">>}
Ports == {<<"1">>}
Paths == {<<>>, <<"/", "a">>, <<"/", "a", "/", "1">>}
Queries == {<<"a">>, <<"a", "/", "1">>, <<"a", "?", "1">>}
Fragments == {<<"a">>, <<"1", "/", "?">>}

FullUris ==
    {[scheme |-> Str(s), userinfo |-> Str(u), host |-> Str(h), port |-> Str(p),
      path |-> Str(pa), query |-> Str(q), fragment |-> Str(f)] :
        s \in Schemes, u \in Userinfos, h \in Hosts, p \in Ports,
        pa \in Paths, q \in Queries, f \in Fragments}
ShortUris ==
    {[ZeroUri EXCEPT !.scheme = Str(s), !.path = Str(pa)] :
        s \in Schemes, pa \in Paths}

WriteFull(c) ==
    c.scheme.str \o <<":", "/", "/">> \o c.userinfo.str \o <<"@">>
        \o c.host.str \o <<":">> \o c.port.str \o c.path.str
        \o <<"?">> \o c.query.str \o <<"#">> \o c.fragment.str
WriteShort(c) == c.scheme.str \o <<":">> \o c.path.str

\* strings of more than MaxUri characters with an empty authority
EmptyAuthorityUris ==
    {<<"a", ":", "/", "/", "/", "a">>, <<"a", ":", "/", "/", "/", "/">>,
     <<"a", ":", "/", "/", "/", "/", "a">>}

UriInit ==
    /\ \/ /\ string \in StringsUpTo(MaxUri) \cup EmptyAuthorityUris
          /\ given = [form |-> "raw", c |-> ZeroUri]
       \/ \E c \in FullUris :
             string = WriteFull(c) /\ given = [form |-> "full", c |-> c]
       \/ \E c \in ShortUris :
             string = WriteShort(c) /\ given = [form |-> "short", c |-> c]
    /\ uri = Unset


(***************************************************************************)
(* rbh-find-lustre: the options of the command line                        *)
(*                                                                         *)
(* A value returned is a record: `by' tells which code produced it, the    *)
(* Lustre switch ("lustre"), the function of rbh-find the string or the    *)
(* predicate was handed to (its value is then that argument, what the      *)
(* function makes of it being its own business), or a failed assert().     *)
(***************************************************************************)
MaxExtra == 1        \* characters that follow a prefix of an option

OptExpired == <<"-", "e", "x", "p", "i", "r", "e", "d">>
OptExpiredAt == OptExpired \o <<"-", "a", "t">>
OptFid == <<"-", "f", "i", "d">>
OptHsmState == <<"-", "h", "s", "m", "-", "s", "t", "a", "t", "e">>
OptOst == <<"-", "o", "s", "t">>
LustreOptions == {OptExpired, OptExpiredAt, OptFid, OptHsmState, OptOst}

CLT_PREDICATE == "CLT_PREDICATE"
LPRED_EXPIRED == "LPRED_EXPIRED"
LPRED_EXPIRED_AT == "LPRED_EXPIRED_AT"
LPRED_EXPIRED_ABS == "LPRED_EXPIRED_ABS"
LPRED_EXPIRED_REL == "LPRED_EXPIRED_REL"
LPRED_FID == "LPRED_FID"
LPRED_HSM_STATE == "LPRED_HSM_STATE"
LPRED_OST_INDEX == "LPRED_OST_INDEX"
PRED_NAME == "PRED_NAME"      \* a predicate of rbh-find

Lustre(value) == [by |-> "lustre", value |-> value]
find_predicate_or_action(s) == [by |-> "find_predicate_or_action", value |-> s]
str2predicate(s) == [by |-> "str2predicate", value |-> s]
predicate2str(p) == [by |-> "predicate2str", value |-> p]
Aborted(s) == [by |-> "assert", value |-> s]

\* strcmp(&s[from - 1], t) == 0
strcmp0(s, from, t) == From(s, from) = t

\* strncmp(&s[from - 1], t, strlen(t)) == 0
strncmp0(s, from, t) ==
    /\ Len(s) >= from + Len(t) - 1
    /\ SubSeq(s, from, from + Len(t) - 1) = t

\* lustre_predicate_or_action()
LustrePredicateOrAction(s) ==
    IF At(s, 1) # "-" THEN find_predicate_or_action(s)
    ELSE CASE At(s, 2) = "e" ->
                 IF ~strncmp0(s, 3, <<"x", "p", "i", "r", "e", "d">>)
                 THEN find_predicate_or_action(s)
                 ELSE IF At(s, Len(OptExpired) + 1) = NUL
                 THEN Lustre(CLT_PREDICATE)
                 ELSE IF strcmp0(s, Len(OptExpired) + 1, <<"-", "a", "t">>)
                 THEN Lustre(CLT_PREDICATE)
                 ELSE find_predicate_or_action(s)
           [] At(s, 2) = "f" ->
                 IF strcmp0(s, 3, <<"i", "d">>) THEN Lustre(CLT_PREDICATE)
                 ELSE find_predicate_or_action(s)
           [] At(s, 2) = "h" ->
                 IF strcmp0(s, 3, <<"s", "m", "-", "s", "t", "a", "t", "e">>)
                 THEN Lustre(CLT_PREDICATE)
                 ELSE find_predicate_or_action(s)
           [] At(s, 2) = "o" ->
                 IF strcmp0(s, 3, <<"s", "t">>) THEN Lustre(CLT_PREDICATE)
                 ELSE find_predicate_or_action(s)
           [] OTHER -> find_predicate_or_action(s)

\* A str2lustre_predicate() that takes every string that begins with
\* "-expired" for -expired
Str2LustrePredicatePrefix(s) ==
    IF At(s, 1) # "-" THEN Aborted(s)
    ELSE CASE At(s, 2) = "e" ->
                 IF ~strncmp0(s, 3, <<"x", "p", "i", "r", "e", "d">>)
                 THEN str2predicate(s)
                 ELSE IF strcmp0(s, Len(OptExpired) + 1, <<"-", "a", "t">>)
                 THEN Lustre(LPRED_EXPIRED_AT)
                 ELSE Lustre(LPRED_EXPIRED)
           [] At(s, 2) = "f" ->
                 IF strcmp0(s, 3, <<"i", "d">>) THEN Lustre(LPRED_FID)
                 ELSE str2predicate(s)
           [] At(s, 2) = "h" ->
                 IF strcmp0(s, 3, <<"s", "m", "-", "s", "t", "a", "t", "e">>)
                 THEN Lustre(LPRED_HSM_STATE)
                 ELSE str2predicate(s)
           [] At(s, 2) = "o" ->
                 IF strcmp0(s, 3, <<"s", "t">>) THEN Lustre(LPRED_OST_INDEX)
                 ELSE str2predicate(s)
           [] OTHER -> str2predicate(s)

\* str2lustre_predicate(): it asserts that the string begins with '-'
Str2LustrePredicate(s) ==
    IF At(s, 1) # "-" THEN Aborted(s)
    ELSE CASE At(s, 2) = "e" ->
                 IF ~strncmp0(s, 3, <<"x", "p", "i", "r", "e", "d">>)
                 THEN str2predicate(s)
                 ELSE IF At(s, Len(OptExpired) + 1) = NUL
                 THEN Lustre(LPRED_EXPIRED)
                 ELSE IF strcmp0(s, Len(OptExpired) + 1, <<"-", "a", "t">>)
                 THEN Lustre(LPRED_EXPIRED_AT)
                 ELSE str2predicate(s)
           [] At(s, 2) = "f" ->
                 IF strcmp0(s, 3, <<"i", "d">>) THEN Lustre(LPRED_FID)
                 ELSE str2predicate(s)
           [] At(s, 2) = "h" ->
                 IF strcmp0(s, 3, <<"s", "m", "-", "s", "t", "a", "t", "e">>)
                 THEN Lustre(LPRED_HSM_STATE)
                 ELSE str2predicate(s)
           [] At(s, 2) = "o" ->
                 IF strcmp0(s, 3, <<"s", "t">>) THEN Lustre(LPRED_OST_INDEX)
                 ELSE str2predicate(s)
           [] OTHER -> str2predicate(s)

\* __lustre_predicate2str[]: its indices are the predicates from LPRED_MIN
\* up to LPRED_MAX
__lustre_predicate2str ==
    [p \in {LPRED_EXPIRED, LPRED_EXPIRED_AT, LPRED_EXPIRED_ABS,
            LPRED_EXPIRED_REL, LPRED_FID, LPRED_HSM_STATE, LPRED_OST_INDEX} |->
        CASE p = LPRED_EXPIRED_AT -> Tail(OptExpiredAt)
          [] p = LPRED_FID -> Tail(OptFid)
          [] p = LPRED_HSM_STATE -> Tail(OptHsmState)
          [] p = LPRED_OST_INDEX -> Tail(OptOst)
          [] OTHER -> Tail(OptExpired)]

\* lustre_predicate2str()
LustrePredicate2Str(p) ==
    IF p \in DOMAIN __lustre_predicate2str
    THEN Lustre(__lustre_predicate2str[p])
    ELSE predicate2str(p)

Predicates == DOMAIN __lustre_predicate2str \cup {PRED_NAME}

\* The strings the command line may hold: every prefix of a Lustre option
\* and of an option of rbh-find, followed by MaxExtra characters at most,
\* each of them as it is, without its first character and after an 'x'
OptName == <<"-", "n", "a", "m", "e">>
ExtraChars == {"-", "a", "t", "x"}
OptionPrefixes ==
    UNION {{SubSeq(o, 1, n) : n \in 0..Len(o)} :
              o \in LustreOptions \cup {OptName}}
DashStrings ==
    {q \o e : q \in OptionPrefixes, e \in SeqsUpTo(ExtraChars, MaxExtra)}
LustreStrings ==
    DashStrings \cup {From(t, 2) : t \in DashStrings}
        \cup {<<"x">> \o t : t \in DashStrings}

LustreInit ==
    /\ string \in LustreStrings
    /\ given = NoParts
    /\ uri = Unset

lustre_predicate_or_action ==
    /\ ret' = LustrePredicateOrAction(string)
    /\ last' = <<"predicate_or_action", 0>>
    /\ errnoIn' = errno
    /\ failure' = NoErr
    /\ UNCHANGED <<sub, errno>>
    /\ UNCHANGED teeVars
    /\ UNCHANGED ckVars
    /\ UNCHANGED mongoVars
    /\ UNCHANGED queryVars
    /\ UNCHANGED uriVars

str2lustre_predicate ==
    /\ ret' = Str2LustrePredicate(string)
    /\ last' = <<"str2lustre_predicate", 0>>
    /\ errnoIn' = errno
    /\ failure' = NoErr
    /\ UNCHANGED <<sub, errno>>
    /\ UNCHANGED teeVars
    /\ UNCHANGED ckVars
    /\ UNCHANGED mongoVars
    /\ UNCHANGED queryVars
    /\ UNCHANGED uriVars

\* lustre_predicate2str(predicate); the name it returns, after a '-', is the
\* option of the command line from then on
lustre_predicate2str(predicate) ==
    /\ LET r == LustrePredicate2Str(predicate) IN
          /\ ret' = r
          /\ string' = IF r.by = "lustre" THEN <<"-">> \o r.value ELSE string
    /\ given' = [form |-> "predicate", c |-> predicate]
    /\ last' = <<"predicate2str", 0>>
    /\ errnoIn' = errno
    /\ failure' = NoErr
    /\ UNCHANGED <<sub, errno, uri>>
    /\ UNCHANGED teeVars
    /\ UNCHANGED ckVars
    /\ UNCHANGED mongoVars
    /\ UNCHANGED queryVars

(***************************************************************************)
(* Specifications                                                          *)
(***************************************************************************)
vars == <<sub, errno, errnoIn, ret, last, failure, tee, teeH, ck, chunks, ckH,
          store, storeBefore, lastBatch, bulkRun, repeat, rbh_backend_error,
          cursor, query, string, given, uri>>

\* two tee siblings over one underlying iterator
InitTee == SubInit /\ TeeInit /\ CkInit /\ MongoIdle /\ QueryIdle /\ UriIdle
NextTee == \E i \in Sibling : tee_iter_next(i) \/ tee_iter_destroy(i)
SpecTee == InitTee /\ [][NextTee]_vars

\* a chunkify iterator over one underlying iterator
InitChunk == SubInit /\ TeeIdle /\ CkInit /\ MongoIdle /\ QueryIdle /\ UriIdle
NextChunk ==
    \/ \E chunk \in 0..MaxChunk : rbh_iter_chunkify(chunk)
    \/ chunkify_iter_next
    \/ \E c \in 1..MaxLen : chunk_iter_next(c)
    \/ chunkify_iter_destroy
SpecChunk == InitChunk /\ [][NextChunk]_vars

\* a MongoDB backend that is given streams of fsevents
SubIdle ==
    /\ sub = [array |-> <<>>, index |-> 0, errs |-> 0, destroyed |-> 0]
    /\ errno = NoErr
    /\ errnoIn = errno
    /\ ret = NULL
    /\ last = <<"init", 0>>
    /\ failure = NoErr

InitMongo == SubIdle /\ TeeIdle /\ CkInit /\ MongoInit /\ QueryIdle /\ UriIdle
NextMongo == mongo_backend_update
SpecMongo == InitMongo /\ [][NextMongo]_vars

\* a MongoDB backend that is queried
InitQuery ==
    /\ sub = [array |-> <<>>, index |-> 0, errs |-> 0, destroyed |-> 0]
    /\ errno \in CallerErrnos
    /\ errnoIn = errno
    /\ ret = NULL
    /\ last = <<"init", 0>>
    /\ failure = NoErr
    /\ TeeIdle /\ CkInit /\ QueryIdle /\ UriIdle
    /\ store \in QueryCollections
    /\ storeBefore = store
    /\ lastBatch = <<>>
    /\ bulkRun = NoBulk
    /\ repeat = FALSE
    /\ rbh_backend_error = <<"", "">>
NextQuery ==
    \/ \E filter \in Filters, fsentry_mask \in FsentryMasks,
          statx_mask \in StatxMasks :
          \/ mongo_backend_filter_fsentries(filter, fsentry_mask, statx_mask)
          \/ mongo_root(fsentry_mask, statx_mask)
    \/ mongo_iter_next
    \/ mongo_iter_destroy
SpecQuery == InitQuery /\ [][NextQuery]_vars

\* a caller of the URI parser
InitUri ==
    /\ sub = [array |-> <<>>, index |-> 0, errs |-> 0, destroyed |-> 0]
    /\ errno \in CallerErrnos
    /\ errnoIn = errno
    /\ ret = NULL
    /\ last = <<"init", 0>>
    /\ failure = NoErr
    /\ TeeIdle /\ CkInit /\ MongoIdle /\ QueryIdle /\ UriInit
NextUri == rbh_parse_raw_uri
SpecUri == InitUri /\ [][NextUri]_vars

\* the command line of rbh-find-lustre
InitLustre ==
    /\ sub = [array |-> <<>>, index |-> 0, errs |-> 0, destroyed |-> 0]
    /\ errno \in CallerErrnos
    /\ errnoIn = errno
    /\ ret = NULL
    /\ last = <<"init", 0>>
    /\ failure = NoErr
    /\ TeeIdle /\ CkInit /\ MongoIdle /\ QueryIdle /\ LustreInit
NextLustre ==
    \/ lustre_predicate_or_action
    \/ str2lustre_predicate
    \/ \E predicate \in Predicates : lustre_predicate2str(predicate)
SpecLustre == InitLustre /\ [][NextLustre]_vars

\* every iterator of the library: a caller has an array iterator, or the
\* chunkify or the two tee siblings that own it, or the result iterator of
\* a query; the caller of a chunkify reads the chunk it returned last
NoTee == \A i \in Sibling : ~tee[i].alive
ChunkCalls ==
    {"init", "chunkify", "chunkify_next", "chunk_next", "chunkify_destroy"}
QueryCalls == {"init", "filter", "mongo_next", "mongo_destroy", "root"}

InitIter == InitTee \/ InitChunk \/ InitQuery
NextIter ==
    \/ NextTee
    \/ NoTee /\ ck.state = "none" /\ store = EmptyStore /\ ArrayNext
    \/ /\ NoTee /\ last[1] \in ChunkCalls /\ store = EmptyStore
       /\ \/ \E chunk \in 0..MaxChunk : rbh_iter_chunkify(chunk)
          \/ chunkify_iter_next
          \/ chunk_iter_next(Len(chunks))
          \/ chunkify_iter_destroy
    \/ NoTee /\ last[1] \in QueryCalls /\ sub.array = <<>> /\ NextQuery
SpecIter == InitIter /\ [][NextIter]_vars

(***************************************************************************)
(* Properties of the iterator combinators                                  *)
(***************************************************************************)
\* C1: as long as every push into a queue has succeeded, what each tee
\* sibling has observed is a prefix of the source in source order, and a
\* sibling that has been told no-more-data has observed the whole source.
TeeEquivalence ==
    teeH.pushFails = 0 =>
        \A i \in Sibling :
            /\ IsPrefix(teeH.seen[i], sub.array)
            /\ teeH.eof[i] => teeH.seen[i] = sub.array

\* S5: both siblings, still linked, have read [1,2,3] to the end
TeeEquivalenceWitness ==
    /\ sub.array = <<1, 2, 3>>
    /\ teeH.pushFails = 0
    /\ \A i \in Sibling :
          tee[i].alive /\ tee[i].clone /\ teeH.eof[i]
          /\ teeH.seen[i] = <<1, 2, 3>>

\* C2: when each chunk iterator is drained before the next one is taken (and
\* no allocation failed), the chunks concatenated are the source read so far,
\* the whole source once chunkify reports no-more-data; every chunk but the
\* last holds exactly `chunk' elements.
ChunkOuts == [c \in DOMAIN chunks |-> chunks[c].out]

ChunkifyTotality ==
    (ckH.allocFails = 0 /\ ~ckH.skipped) =>
        /\ IsPrefix(Flatten(ChunkOuts), sub.array)
        /\ ckH.eof => Flatten(ChunkOuts) = sub.array
        /\ \A c \in DOMAIN chunks :
              /\ Len(chunks[c].out) <= ck.chunk
              /\ c < Len(chunks) => Len(chunks[c].out) = ck.chunk

\* S4: [a,b,c,d,e] with chunk = 2 has been cut into [a,b], [c,d], [e]
ChunkifyTotalityWitness ==
    /\ sub.array = <<1, 2, 3, 4, 5>>
    /\ ck.chunk = 2
    /\ ckH.eof /\ ckH.allocFails = 0 /\ ~ckH.skipped
    /\ ChunkOuts = << <<1, 2>>, <<3, 4>>, <<5>> >>

(***************************************************************************)
(* Properties of the bulk update                                           *)
(***************************************************************************)
Updated == last[1] = "update" /\ ret = Len(lastBatch) /\ ret > 0

\* C3: a successful update leaves the collection as if the operations of its
\* events had been applied one at a time in stream order.
UpdateInStreamOrder ==
    Updated => store = ApplySeq(storeBefore, bulkRun.issued)

\* C4: the two operations of every link are executed one right after the
\* other, the unlink first.
LinkPairKept == bulkRun.kept

\* C5: an update that succeeds returns the number of fsevents read, whatever
\* the number of operations issued; for an empty stream it returns 0 and
\* executes nothing.
UpdateReturnsCount ==
    last[1] = "update" =>
        /\ ret >= 0 => ret = Len(lastBatch)
        /\ lastBatch = <<>> =>
              /\ bulkRun.executed = 0
              /\ store = storeBefore
              /\ ret = 0 \/ (ret = -1 /\ errno = ENOMEM)

\* S6: three fsevents, four operations, the value returned is 3
UpdateReturnsCountWitness ==
    /\ last[1] = "update"
    /\ lastBatch = S6
    /\ Len(bulkRun.issued) = 4
    /\ bulkRun.executed = 1
    /\ ret = 3

\* C6: when the execution of the bulk fails, update returns -1, errno is
\* EAGAIN if the reply has the label TransientTransactionError and
\* RBH_BACKEND_ERROR otherwise, and the buffer holds the driver's message.
ExecFailureClassified ==
    (last[1] = "update" /\ bulkRun.executed = 1 /\ bulkRun.message # "") =>
        /\ ret = -1
        /\ errno = IF "TransientTransactionError" \in bulkRun.reply
                   THEN EAGAIN ELSE RBH_BACKEND_ERROR
        /\ rbh_backend_error = <<"mongoc: ", bulkRun.message>>

ExecFailureClassifiedWitness ==
    /\ last[1] = "update"
    /\ bulkRun.executed = 1
    /\ "TransientTransactionError" \in bulkRun.reply
    /\ errno = EAGAIN
    /\ ret = -1

\* C7: an update that resubmits the stream of the update before it leaves the
\* collection as that update left it.
ResubmitIdempotent == (repeat /\ Updated) => store = storeBefore

\* C8: an update keeps every entry of the collection linked: if every entry
\* had a namespace edge before it, every entry has one after it.
AllLinked(st) == \A id \in Ids : st[id].present => st[id].ns # <<>>

EveryEntryHasEdge == AllLinked(storeBefore) => AllLinked(store)

\* C9: unlink events on an entry that is not in the collection leave the
\* collection as it was, whereas a stream without delete that holds an
\* upsert, xattrs or link event creates the entry.
TypesOf(fsevents) == {fsevents[k].type : k \in DOMAIN fsevents}

UnlinkNeverCreates ==
    (Updated /\ ~storeBefore["X"].present) =>
        /\ TypesOf(lastBatch) = {RBH_FET_UNLINK} => store = storeBefore
        /\ (RBH_FET_DELETE \notin TypesOf(lastBatch)
            /\ TypesOf(lastBatch) # {RBH_FET_UNLINK}) => store["X"].present

UnlinkNeverCreatesWitness ==
    /\ Updated
    /\ ~storeBefore["X"].present
    /\ TypesOf(lastBatch) = {RBH_FET_UNLINK}
    /\ ~store["X"].present

\* C10: delete events applied twice, in two updates or in one, leave the
\* collection as one delete event does.
DeleteIdempotent ==
    (Updated /\ TypesOf(lastBatch) = {RBH_FET_DELETE}) =>
        /\ repeat => store = storeBefore
        /\ Len(lastBatch) = 2 =>
              store \in {r.store : r \in mongoc_bulk_operation_execute(
                                     storeBefore, BulkOf(<<lastBatch[1]>>))}

DeleteIdempotentWitness ==
    /\ Updated
    /\ repeat
    /\ lastBatch = <<FsEvent(RBH_FET_DELETE)>>
    /\ store["Y"].present

\* C11: link(p,n) then unlink(p,n), submitted in one stream for an entry that
\* was not in the collection, leave that entry without the edge {p,n}.
HasEdge(doc, edge) == \E k \in DOMAIN doc.ns : doc.ns[k] = edge

LinkUnlinkInverse ==
    (/\ Updated
     /\ ~storeBefore["X"].present
     /\ lastBatch = <<FsEvent(RBH_FET_LINK), FsEvent(RBH_FET_UNLINK)>>)
        => ~HasEdge(store["X"], P1a)

(***************************************************************************)
(* Properties of the queries                                               *)
(***************************************************************************)
Returned == last[1] \in {"mongo_next", "root"} /\ ret # NULL

\* C12: a fsentry returned by the result iterator or by root holds no field
\* outside the fsentry mask and the statx mask of the query.
ProjectionApplied ==
    Returned =>
        /\ query.entry.mask \subseteq query.fsentry_mask
        /\ query.entry.statx_mask \subseteq query.statx_mask

\* C13: root returns an entry linked under the zero-length id whenever the
\* collection holds one and nothing fails, it never returns an entry that is
\* not, and it fails with ENOENT when the collection holds none.
HoldsRoot(st) == \E id \in Ids : st[id].present /\ HasEdge(st[id], RootEdge)

RootReturnsRoot ==
    last[1] = "root" =>
        /\ ret # NULL =>
              /\ query.entry.parent_id = RootId
              /\ query.entry.id \in Ids
              /\ store[query.entry.id].present
              /\ HasEdge(store[query.entry.id], RootEdge)
        /\ (query.fault = "none" /\ HoldsRoot(store)) => ret # NULL
        /\ (query.fault = "none" /\ ~HoldsRoot(store)) =>
              ret = NULL /\ errno = ENOENT

\* S7: the collection holds the root X and one child Y; root returns X
RootReturnsRootWitness ==
    /\ last[1] = "root"
    /\ store["X"].present /\ store["X"].ns = <<RootEdge>>
    /\ store["Y"].present /\ store["Y"].ns = <<P1a>>
    /\ query.fsentry_mask = {"ID", "PARENT_ID"} /\ query.statx_mask = {}
    /\ ret # NULL
    /\ query.entry.id = "X" /\ query.entry.parent_id = RootId

(***************************************************************************)
(* Properties of every iterator                                            *)
(***************************************************************************)
NextCalls ==
    {"array_next", "chunk_next", "chunkify_next", "tee_next", "mongo_next"}

ErrnoTellsEndFromFailure ==
    (last[1] \in NextCalls /\ ret = NULL) =>
        /\ errno = ENODATA <=> failure = NoErr
        /\ failure # NoErr => errno = failure

(***************************************************************************)
(* Properties of the tee after a failed share                              *)
(***************************************************************************)
\* what sibling a has observed beyond the first m elements
Beyond(a, m) == SubSeq(teeH.seen[a], m + 1, Len(teeH.seen[a]))

\* the element waiting in sibling b's pending slot, as a sequence
Pending(b) == IF tee[b].next # NULL THEN <<tee[b].next>> ELSE <<>>

IsSuffix(s, t) ==
    Len(s) <= Len(t) /\ SubSeq(t, Len(t) - Len(s) + 1, Len(t)) = s

ShareOfNewFailed ==
    /\ last[1] = "tee_next"
    /\ teeH.call.shareFailed
    /\ sub.index = teeH.call.index + 1

\* C17: a tee_iter_next() that reads a new element from the source and fails
\* to share it stores the element in the other sibling's next slot and
\* signals the failure: it returns NULL with errno set.
ShareFailureSignalled ==
    ShareOfNewFailed =>
        /\ tee[Other(last[2])].next = sub.array[sub.index]
        /\ ret = NULL
        /\ errno = ENOMEM

\* C17, amended: it stores the element in the other sibling's next slot and
\* returns the element, with errno as it was when the call was entered.
ShareFailureKeepsElement ==
    ShareOfNewFailed =>
        /\ tee[Other(last[2])].next = sub.array[sub.index]
        /\ ret = sub.array[sub.index]
        /\ errno = errnoIn

\* sibling 0 has read 1 and 2; the share of 2 failed
ShareFailureKeepsElementWitness ==
    /\ ShareOfNewFailed
    /\ last[2] = 0
    /\ ret = 2
    /\ tee[1].queue = <<1>>
    /\ tee[1].next = 2
    /\ errnoIn = "EEXIST"

\* the elements of a queue
InQueue(q) == {q[k] : k \in DOMAIN q}

\* the last call was a tee_iter_next(), both siblings being there, entered
\* while an element was pending in the next slot of sibling b
CalledWithPending(b) ==
    /\ last[1] = "tee_next"
    /\ \A i \in Sibling : tee[i].alive
    /\ teeH.call.pend[b] # NULL

\* C18: a tee_iter_next() on either sibling, entered while an element is
\* pending for sibling b, retries the push of that element into b's queue, and
\* the element is in b's queue before a new element is read from the source.
RetryOnEitherSibling ==
    \A b \in Sibling :
        CalledWithPending(b) =>
            /\ teeH.call.retry # "none"
            /\ sub.index > teeH.call.index =>
                  teeH.call.pend[b] \in InQueue(tee[b].queue)

\* C18, amended: a call on the producer retries the push before it reads:
\* when the push succeeds the element is in b's queue, when it fails again the
\* call returns nothing, reads nothing and leaves the element pending; a call
\* on b itself retries nothing: it returns what its queue holds and leaves the
\* element pending or, its queue being empty, returns the pending element, and
\* reads nothing from the source.
RetryOnProducerOnly ==
    \A b \in Sibling :
        CalledWithPending(b) =>
            /\ last[2] = Other(b) =>
                  /\ teeH.call.retry # "none"
                  /\ teeH.call.retry = "ok" =>
                        /\ teeH.call.pend[b] \in InQueue(tee[b].queue)
                        /\ tee[b].next # teeH.call.pend[b]
                  /\ teeH.call.retry = "failed" =>
                        /\ ret = NULL
                        /\ sub.index = teeH.call.index
                        /\ tee[b].next = teeH.call.pend[b]
            /\ last[2] = b =>
                  /\ teeH.call.retry = "none"
                  /\ sub.index = teeH.call.index
                  /\ teeH.call.popped => tee[b].next = teeH.call.pend[b]
                  /\ ~teeH.call.popped =>
                        ret = teeH.call.pend[b] /\ tee[b].next = NULL

\* the producer, sibling 0, has retried the share of 2 and read 3
RetryOnProducerOnlyWitness ==
    /\ CalledWithPending(1)
    /\ last[2] = 0
    /\ teeH.call.pend[1] = 2
    /\ teeH.call.retry = "ok"
    /\ ret = 3
    /\ tee[1].queue = <<1, 2, 3>>

\* C19: a sibling's next slot holds one element at most, and a tee_iter_next()
\* never overwrites an element that is pending: the element leaves the slot
\* only for the queue of its sibling (the retry succeeded) or for the caller of
\* that sibling; a call whose retry fails returns NULL with ENOMEM, reads
\* nothing from the source and leaves both siblings as they were.
PendingNeverOverwritten ==
    /\ \A b \in Sibling : tee[b].next \in Elems \cup {NULL}
    /\ last[1] = "tee_next" =>
          /\ \A b \in Sibling :
                (teeH.call.pend[b] # NULL /\ tee[b].next # teeH.call.pend[b]) =>
                    \/ /\ teeH.call.retry = "ok"
                       /\ teeH.call.pend[b] \in InQueue(tee[b].queue)
                    \/ last[2] = b /\ ret = teeH.call.pend[b]
          /\ teeH.call.retry = "failed" =>
                /\ ret = NULL
                /\ errno = ENOMEM
                /\ sub.index = teeH.call.index
                /\ \A b \in Sibling : tee[b].next = teeH.call.pend[b]

\* the share of 2 by sibling 0 had failed; its retry has failed as well
PendingNeverOverwrittenWitness ==
    /\ last = <<"tee_next", 0>>
    /\ teeH.call.retry = "failed"
    /\ teeH.call.pend[1] = 2
    /\ tee[1].next = 2
    /\ tee[1].queue = <<1>>
    /\ sub.index = 2
    /\ sub.index < Len(sub.array)
    /\ ret = NULL

\* C20: the underlying iterator is destroyed once, when the second of the
\* two siblings is destroyed, and not before, whatever the order; a sibling
\* that is destroyed takes its queue with it and leaves the other's alone.
TeeDestroysSubOnce ==
    /\ [](sub.destroyed = IF \A i \in Sibling : ~tee[i].alive THEN 1 ELSE 0)
    /\ [][\A i \in Sibling :
            (tee[i].alive /\ ~tee'[i].alive) =>
                /\ tee'[i].queue = <<>>
                /\ tee'[Other(i)].queue = tee[Other(i)].queue
                /\ tee'[Other(i)].alive = tee[Other(i)].alive
                /\ sub'.destroyed =
                      sub.destroyed + (IF tee[Other(i)].alive THEN 0 ELSE 1)]_vars

\* sibling 1 was destroyed first, with two elements in its queue, then
\* sibling 0: the underlying iterator has been destroyed once
TeeDestroysSubOnceWitness ==
    /\ last = <<"tee_destroy", 0>>
    /\ \A i \in Sibling : ~tee[i].alive
    /\ teeH.seen[0] = <<1, 2>>
    /\ teeH.seen[1] = <<>>
    /\ sub.destroyed = 1

(***************************************************************************)
(* Properties of chunkify                                                  *)
(***************************************************************************)
\* C21: a chunk iterator yields `chunk' elements at most, and a next call on
\* a chunk iterator that has yielded `chunk' elements returns NULL with
\* errno = ENODATA, reads nothing from the underlying iterator and yields
\* nothing.
ChunkYieldsAtMostChunk ==
    /\ [](\A c \in DOMAIN chunks : Len(chunks[c].out) <= ck.chunk)
    /\ [][\A c \in DOMAIN chunks :
            (/\ last'[1] = "chunk_next"
             /\ Len(chunks[c].out) = ck.chunk
             /\ chunk_iter_next(c)) =>
                /\ ret' = NULL
                /\ errno' = ENODATA
                /\ sub' = sub
                /\ chunks'[c].out = chunks[c].out]_vars

\* the first chunk of [1,2,3] with chunk = 2 has yielded 1 and 2, and has
\* answered the call that followed with no-more-data: 3 is still unread
ChunkYieldsAtMostChunkWitness ==
    /\ last[1] = "chunk_next"
    /\ ck.chunk = 2
    /\ sub.array = <<1, 2, 3>>
    /\ chunks[1].out = <<1, 2>>
    /\ chunks[1].ended
    /\ ret = NULL
    /\ errno = ENODATA
    /\ sub.index = 2

\* C22: a next call on the chunkify iterator reads no element from the
\* underlying iterator: only the next calls on chunk iterators do.
ChunkifyNextReadsNothing ==
    [][last'[1] \in ChunkCalls \ {"chunk_next"} => sub'.index = sub.index]_vars

Yielded == UNION {InQueue(chunks[c].out) : c \in DOMAIN chunks}

\* C23: when the chunkify iterator returns a new chunk although the chunk
\* before it has yielded less than `chunk' elements, the first element of
\* the new chunk is the first element of the source that no chunk has
\* yielded, and every element read from the source has been yielded or is
\* that first element.
AdvanceKeepsBoundary ==
    (/\ last[1] = "chunkify_next" /\ ret # NULL
     /\ Len(chunks) > 1
     /\ Len(chunks[Len(chunks) - 1].out) < ck.chunk) =>
        LET first == chunks[Len(chunks)].first IN
        /\ first \notin Yielded
        /\ \A k \in 1..sub.index : k \in Yielded \/ k = first

\* C24: rbh_iter_chunkify() with chunk = 0 returns NULL with errno = EINVAL;
\* the iterator it was given is not read and not destroyed, and no chunkify
\* iterator exists.
ChunkifyZeroRefused ==
    last = <<"chunkify", 0>> =>
        /\ ret = NULL
        /\ errno = EINVAL
        /\ ck.state = "none"
        /\ chunks = <<>>
        /\ sub.index = 0
        /\ sub.destroyed = 0

\* chunkify of [1,2,3] with chunk = 0, by a caller whose errno was 0
ChunkifyZeroRefusedWitness ==
    /\ last = <<"chunkify", 0>>
    /\ sub.array = <<1, 2, 3>>
    /\ errnoIn = NoErr
    /\ errno = EINVAL
    /\ ret = NULL

(***************************************************************************)
(* Properties of the URI parser                                            *)
(***************************************************************************)
Parsed == last[1] = "parse_uri" /\ ret = 0

\* scheme[://authority]path[?query][#fragment], with the separators of RFC
\* 3986 put back; the authority is [userinfo@]host[:port] and is written
\* when one of its three parts is there
Opt(before, field, after) ==
    IF field.null THEN <<>> ELSE before \o field.str \o after
Reassemble(u) ==
    u.scheme.str \o <<":">>
        \o (IF u.userinfo.null /\ u.host.null /\ u.port.null THEN <<>>
            ELSE <<"/", "/">> \o Opt(<<>>, u.userinfo, <<"@">>)
                    \o u.host.str \o Opt(<<":">>, u.port, <<>>))
        \o u.path.str \o Opt(<<"?">>, u.query, <<>>)
        \o Opt(<<"#">>, u.fragment, <<>>)

\* C25: the components of a string that the parser accepts, reassembled,
\* make a string that the parser accepts and splits into the same components.
UriRoundTrip ==
    Parsed =>
        LET again == ParseRawUri(Reassemble(uri)) IN
        again.rc = 0 /\ again.uri = uri

\* C26: a string written from components that RFC 3986 allows, in full or as
\* scheme:path, is accepted and split into those components, every field
\* that was not written being NULL.
UriSplitsComponents ==
    (last[1] = "parse_uri" /\ given.form \in {"full", "short"}) =>
        ret = 0 /\ uri = given.c

\* the scheme of RFC 3986: a letter, then letters, digits, '+', '-', '.',
\* up to a ':'
SchemeChars == Letters \cup Digits \cup {"+", "-", "."}
HasScheme(s) ==
    \E k \in 2..Len(s) :
        /\ s[k] = ":"
        /\ s[1] \in Letters
        /\ \A j \in 2..(k - 1) : s[j] \in SchemeChars

\* C27: the parser returns 0 exactly for the strings that start with a
\* scheme followed by ':'; for every other string it returns -1 and sets
\* errno to EINVAL.
UriAcceptsSchemes ==
    last[1] = "parse_uri" =>
        /\ ret = 0 <=> HasScheme(string)
        /\ ret # 0 => ret = -1 /\ errno = EINVAL

\* "a+1:" is accepted and "a/:" is not; here "a1/:" has been refused
UriAcceptsSchemesWitness ==
    /\ last[1] = "parse_uri"
    /\ string = <<"a", "1", "/", ":">>
    /\ errnoIn = NoErr
    /\ ret = -1
    /\ errno = EINVAL

\* scheme://tail, where tail is a path (empty, or one that starts with a
\* single '/'), a query or a fragment: a URI with an empty authority
EmptyAuthority(s) ==
    LET colon == strchr(s, ":") IN
    /\ colon # 0
    /\ At(s, colon + 1) = "/" /\ At(s, colon + 2) = "/"
    /\ At(s, colon + 3) \in {"/", "?", "#", NUL}
    /\ At(s, colon + 3) = "/" => At(s, colon + 4) # "/"
\* the same URI with no authority: scheme:tail
WithoutAuthority(s) ==
    LET colon == strchr(s, ":") IN
    SubSeq(s, 1, colon) \o From(s, colon + 3)

\* C28: the components of a URI with an empty authority differ from the
\* components of that URI written with no authority.
EmptyAuthorityDistinguished ==
    (Parsed /\ EmptyAuthority(string)) =>
        uri # ParseRawUri(WithoutAuthority(string)).uri

(***************************************************************************)
(* Properties of an update that cannot read or lower its stream            *)
(***************************************************************************)
\* C29: when the unlink of a link cannot be appended to the bulk, the update
\* of that link is not appended, update returns -1 and nothing is executed:
\* the collection is as it was.
LinkAbortsWithUnlink ==
    (last[1] = "update" /\ bulkRun.stopped.kind \in {"unlink_bson", "unlink"}) =>
        /\ bulkRun.issued = BulkOf(SubSeq(lastBatch, 1, bulkRun.stopped.at - 1))
        /\ ret = -1
        /\ bulkRun.executed = 0
        /\ store = storeBefore

\* [upsert, link]: the upsert has been appended, the unlink of the link has
\* been refused; X was not in the collection and is not
LinkAbortsWithUnlinkWitness ==
    /\ last[1] = "update"
    /\ lastBatch = <<FsEvent(RBH_FET_UPSERT), FsEvent(RBH_FET_LINK)>>
    /\ bulkRun.stopped = [kind |-> "unlink", at |-> 2]
    /\ Len(bulkRun.issued) = 1
    /\ ~storeBefore["X"].present
    /\ ~store["X"].present
    /\ ret = -1
    /\ errno = EINVAL

\* C30: an update executes its bulk once at most, and only when the iterator
\* has ended with no-more-data and every fsevent has been lowered; when the
\* iterator fails or an fsevent cannot be lowered, update returns -1 and the
\* collection is as it was, whatever had been appended by then.
UpdateAllOrNothing ==
    last[1] = "update" =>
        /\ bulkRun.executed <= 1
        /\ bulkRun.executed = 1 =>
              /\ bulkRun.eof
              /\ bulkRun.stopped = NoStop
              /\ bulkRun.issued = BulkOf(lastBatch)
        /\ bulkRun.stopped # NoStop =>
              /\ ret = -1
              /\ bulkRun.executed = 0
              /\ store = storeBefore

\* [upsert, delete]: the upsert of X, absent, has been appended, then the
\* iterator has failed: X is still absent
UpdateAllOrNothingWitness ==
    /\ last[1] = "update"
    /\ lastBatch = <<FsEvent(RBH_FET_UPSERT), FsEvent(RBH_FET_DELETE)>>
    /\ bulkRun.stopped = [kind |-> "iterator", at |-> 2]
    /\ Len(bulkRun.issued) = 1
    /\ ~storeBefore["X"].present
    /\ ~store["X"].present
    /\ ret = -1
    /\ errno = EIO

(***************************************************************************)
(* Properties of the tee when pushes fail                                  *)
(***************************************************************************)
\* C31: whatever pushes into the queues fail and however the next calls on
\* the two siblings interleave, no sibling observes a source element twice:
\* what each sibling has observed is a prefix of the source.
TeeNoDuplicates ==
    \A i \in Sibling : IsPrefix(teeH.seen[i], sub.array)

\* sibling j is the one left: the other sibling has been destroyed
Survivor(j) == tee[j].alive /\ ~tee[Other(j)].alive

\* what is left for sibling j to observe: its queue, then the element in its
\* pending slot, then what the underlying iterator has not returned yet
Ahead(j) ==
    tee[j].queue \o Pending(j)
        \o SubSeq(sub.array, sub.index + 1, Len(sub.array))

\* the source elements sibling j has not observed yet, in source order
NotYet(j) ==
    SelectSeq(sub.array, LAMBDA e : e \notin InQueue(teeH.seen[j]))

\* where element e is in the source
PosOf(e) == CHOOSE k \in DOMAIN sub.array : sub.array[k] = e

InSourceOrder(s) ==
    \A k \in 1..(Len(s) - 1) : PosOf(s[k]) <= PosOf(s[k + 1])

\* C32: once one sibling has been destroyed, every source element the other
\* has not observed yet is ahead of it, in its queue, in its pending slot or
\* in the underlying iterator, in source order; each of its next calls returns
\* the first element ahead, so that it has observed the whole source when it
\* is told no-more-data; nothing is buffered for the destroyed sibling.
SurvivorObservesRest ==
    /\ [](\A j \in Sibling :
            Survivor(j) =>
                /\ SelectSeq(Ahead(j),
                             LAMBDA e : e \notin InQueue(teeH.seen[j]))
                      = NotYet(j)
                /\ InSourceOrder(teeH.seen[j] \o Ahead(j))
                /\ teeH.eof[j] => (Ahead(j) = <<>> /\ NotYet(j) = <<>>)
                /\ ~tee[j].clone
                /\ tee[Other(j)].queue = <<>>
                /\ tee[Other(j)].next = NULL)
    /\ [][\A j \in Sibling :
            (Survivor(j) /\ last' = <<"tee_next", j>>) =>
                /\ ret' # NULL =>
                      /\ Ahead(j) # <<>>
                      /\ ret' = Head(Ahead(j))
                      /\ Ahead(j)' = Tail(Ahead(j))
                /\ ret' = NULL =>
                      /\ Ahead(j)' = Ahead(j)
                      /\ errno' = ENODATA => Ahead(j) = <<>>
                /\ tee'[Other(j)] = tee[Other(j)]]_vars

\* sibling 0 had read 1, 2, 3; sibling 1 had observed 1 and had 2 in its
\* queue and 3, whose share failed, in its pending slot when sibling 0 was
\* destroyed; it has gone on to the end of [1,2,3,4]
SurvivorObservesRestWitness ==
    /\ Survivor(1)
    /\ sub.array = <<1, 2, 3, 4>>
    /\ teeH.pushFails = 1
    /\ teeH.seen[0] = <<1, 2, 3>>
    /\ teeH.seen[1] = <<1, 2, 3, 4>>
    /\ teeH.eof[1]

(***************************************************************************)
(* Properties of chunk iterators that share one cursor                     *)
(***************************************************************************)
\* no element occurs twice in s
NoRepeat(s) == Cardinality(InQueue(s)) = Len(s)

\* s is made of elements of the source, each once, in source order
PickedInOrder(s) == SelectSeq(sub.array, LAMBDA e : e \in InQueue(s)) = s

\* C33: however the next calls on chunkify and on the chunk iterators it has
\* returned interleave, and no allocation having failed, no element of the
\* underlying stream is yielded twice, by one chunk iterator or by two, and
\* what one chunk iterator has yielded is in source order.
ChunksYieldOnceInOrder ==
    ckH.allocFails = 0 =>
        /\ NoRepeat(Flatten(ChunkOuts))
        /\ \A c \in DOMAIN chunks : PickedInOrder(chunks[c].out)

\* [1,2,3,4] with chunk = 2: the second chunk iterator was taken and drained
\* before the first one was advanced, which has then yielded 1 and 4
ChunksYieldOnceInOrderWitness ==
    /\ sub.array = <<1, 2, 3, 4>>
    /\ ck.chunk = 2
    /\ ckH.allocFails = 0
    /\ ChunkOuts = << <<1, 4>>, <<2, 3>> >>

\* C34: a chunkify_iter_next() that fails because the chunk iterator cannot
\* be allocated loses no element: when every chunk iterator is drained before
\* the next one is taken, the chunks handed out until no-more-data hold the
\* whole source, the element that would have started the chunk that could
\* not be allocated included.
AllocFailureLosesNothing ==
    (ckH.allocFails > 0 /\ ckH.eof /\ ~ckH.skipped) =>
        Flatten(ChunkOuts) = sub.array

(***************************************************************************)
(* Properties of a link applied twice                                      *)
(***************************************************************************)
\* how many times the document holds the edge
Edges(doc, edge) == Cardinality({k \in DOMAIN doc.ns : doc.ns[k] = edge})

\* C35: link(p,n) applied twice to the same id, by one update whose stream
\* holds it twice or by an update that resubmits it, leaves the entry with
\* exactly one edge {p,n}.
LinkTwiceOneEdge ==
    (/\ Updated
     /\ \/ lastBatch = <<FsEvent(RBH_FET_LINK), FsEvent(RBH_FET_LINK)>>
        \/ repeat /\ lastBatch = <<FsEvent(RBH_FET_LINK)>>)
        => Edges(store["X"], P1a) = 1

(***************************************************************************)
(* Properties of the options of rbh-find-lustre                            *)
(***************************************************************************)
LustrePredicates ==
    {LPRED_EXPIRED, LPRED_EXPIRED_AT, LPRED_FID, LPRED_HSM_STATE,
     LPRED_OST_INDEX}

\* C36: lustre_predicate_or_action() and str2lustre_predicate() recognise
\* the same strings, -expired, -expired-at, -fid, -hsm-state and -ost and no
\* other: the Lustre switch of the first returns CLT_PREDICATE for a string
\* if and only if the second returns a Lustre predicate for it; every other
\* string is handed to the function of rbh-find (by the second, every other
\* string that passes its assertion); and the name of each of the five
\* predicates, after a '-', is mapped back to that predicate.
LustreOptionsAgree ==
    /\ last[1] = "predicate_or_action" =>
          /\ ret.by = "lustre" <=> string \in LustreOptions
          /\ ret.by = "lustre" <=> Str2LustrePredicate(string).by = "lustre"
          /\ ret.by = "lustre" => ret.value = CLT_PREDICATE
          /\ ret.by # "lustre" =>
                ret.by = "find_predicate_or_action" /\ ret.value = string
    /\ last[1] = "str2lustre_predicate" =>
          /\ ret.by = "lustre" <=> string \in LustreOptions
          /\ ret.by = "lustre" <=>
                LustrePredicateOrAction(string).by = "lustre"
          /\ ret.by = "lustre" => ret.value \in LustrePredicates
          /\ (ret.by # "lustre" /\ At(string, 1) = "-") =>
                ret.by = "str2predicate" /\ ret.value = string
          /\ (given.form = "predicate" /\ given.c \in LustrePredicates) =>
                ret.by = "lustre" /\ ret.value = given.c

\* "-expired-at", written from the name of LPRED_EXPIRED_AT, has been mapped
\* back to LPRED_EXPIRED_AT
LustreOptionsAgreeWitness ==
    /\ last[1] = "str2lustre_predicate"
    /\ given.form = "predicate"
    /\ given.c = LPRED_EXPIRED_AT
    /\ string = OptExpiredAt
    /\ ret.by = "lustre"
    /\ ret.value = LPRED_EXPIRED_AT

=============================================================================
